---- MODULE Spec2Model ----
(***************************************************************************)
(* The gamification engine of geeksboard (core/models.py, core/utils.py,   *)
(* core/views.py, core/admin.py): the point ledger, its aggregates, the    *)
(* levels, the rankings, the badge evaluator and the monthly rewards.      *)
(*                                                                         *)
(* The relational store is the state: one variable per table.  A datetime  *)
(* is <<year, month, day, tod>> with tod the time of day in ticks.  A full *)
(* name is its position in the store's collation order.  SQL NULL / Python *)
(* None is NULL == <<>>, a value v that may be NULL is Some(v) == <<v>>.   *)
(***************************************************************************)
EXTENDS Integers, Sequences, FiniteSets, Bags, TLC

VARIABLES
    group_tbl,       \* Group rows:          id -> [mentor, name]
    student_tbl,     \* Student rows:        id -> [group, full_name]
    category_tbl,    \* PointCategory rows:  slug -> [name, max_score]
    badge_tbl,       \* Badge rows:          id -> [name, criteria_type, criteria_value, is_active]
    points,          \* StudentPoint rows:   a bag of [student, category, score, date]
    student_badges,  \* StudentBadge rows:   a bag of [student, badge]
    now,             \* timezone.now()
    last,            \* the outcome of the most recent request or call
    pc,              \* per worker: where its check_and_assign_badges call stands
    loc              \* per worker: the locals of that call

vars == <<group_tbl, student_tbl, category_tbl, badge_tbl, points,
          student_badges, now, last, pc, loc>>

directory == <<group_tbl, student_tbl, badge_tbl>>
workers == <<pc, loc>>

----------------------------------------------------------------------------
(* Bounds of the model *)

\* most StudentPoint rows the mentors and the admin put in the ledger
MaxPoints == 2

\* most reward runs that follow one another on one ledger
MaxRuns == 2

\* most StudentPoint rows in the ledger, the rewards of the reward runs included
MaxRows == MaxPoints + 1

----------------------------------------------------------------------------
(* Values *)

NULL == <<>>
Some(v) == <<v>>

\* datetime comparison: a < b
DtLess(a, b) ==
    \/ a[1] < b[1]
    \/ a[1] = b[1] /\ a[2] < b[2]
    \/ a[1] = b[1] /\ a[2] = b[2] /\ a[3] < b[3]
    \/ a[1] = b[1] /\ a[2] = b[2] /\ a[3] = b[3] /\ a[4] < b[4]

DtLeq(a, b) == a = b \/ DtLess(a, b)

Abs(n) == IF n < 0 THEN -n ELSE n

\* SQL COUNT(*) over a bag of rows
RECURSIVE CountRows(_)
CountRows(B) ==
    IF DOMAIN B = {} THEN 0
    ELSE LET e == CHOOSE x \in DOMAIN B : TRUE
         IN B[e] + CountRows([x \in DOMAIN B \ {e} |-> B[x]])

\* the total of the score column of a bag of rows
RECURSIVE AddScores(_)
AddScores(B) ==
    IF DOMAIN B = {} THEN 0
    ELSE LET e == CHOOSE x \in DOMAIN B : TRUE
         IN e.score * B[e] + AddScores([x \in DOMAIN B \ {e} |-> B[x]])

\* SQL SUM(score): NULL over no rows
SqlSum(B) == IF DOMAIN B = {} THEN NULL ELSE Some(AddScores(B))

\* the bag B with one more copy of row e, and with one copy less
InsertRow(B, e) == B (+) SetToBag({e})
DeleteRow(B, e) == B (-) SetToBag({e})

\* tuples of integers in lexicographic order: a < b
RECURSIVE LexLess(_, _)
LexLess(a, b) ==
    /\ a # <<>>
    /\ b # <<>>
    /\ \/ a[1] < b[1]
       \/ a[1] = b[1] /\ LexLess(Tail(a), Tail(b))

\* every order a store may return the rows S in under ORDER BY key ascending:
\* rows with equal keys come in any order
Orderings(S, key) ==
    {f \in [1..Cardinality(S) -> S] :
        /\ \A i, j \in 1..Cardinality(S) : i # j => f[i] # f[j]
        /\ \A i, j \in 1..Cardinality(S) : i < j => ~LexLess(key[f[j]], key[f[i]])}

\* seq[:n]
Take(seq, n) == SubSeq(seq, 1, IF n < Len(seq) THEN n ELSE Len(seq))

----------------------------------------------------------------------------
(* Student.total_score and the queryset it sums *)

\* self.points.all() with the optional date__gte / date__lt filters
PointsOf(pts, s, start_date, end_date) ==
    [e \in {x \in DOMAIN pts :
              /\ x.student = s
              /\ (start_date # NULL => DtLeq(start_date[1], x.date))
              /\ (end_date # NULL => DtLess(x.date, end_date[1]))} |-> pts[e]]

\* a mutant of total_score: the deductions are left out of the sum
total_score_awards_only(pts, s, start_date, end_date) ==
    AddScores([e \in {x \in DOMAIN PointsOf(pts, s, start_date, end_date) : x.score > 0}
                  |-> pts[e]])

\* qs.aggregate(total=Sum('score'))['total'] or 0
total_score(pts, s, start_date, end_date) ==
    LET total == SqlSum(PointsOf(pts, s, start_date, end_date))
    IN IF total = NULL \/ total[1] = 0 THEN 0 ELSE total[1]

\* a mutant of get_score_breakdown: the end_date filter is missing
get_score_breakdown_no_end(pts, s, start_date, end_date) ==
    LET qs == PointsOf(pts, s, start_date, NULL)
        names == {category_tbl[e.category].name : e \in DOMAIN qs}
        total(n) == AddScores([e \in {x \in DOMAIN qs : category_tbl[x.category].name = n}
                                 |-> qs[e]])
        order == CHOOSE f \in Orderings(names, [n \in names |-> <<n>>]) : TRUE
    IN [i \in 1..Cardinality(names) |-> [category__name |-> order[i], total |-> total(order[i])]]

\* qs.values('category__name').annotate(total=Sum('score')).order_by('category__name'):
\* one entry per category name that has rows in the range (names are unique)
get_score_breakdown(pts, s, start_date, end_date) ==
    LET qs == PointsOf(pts, s, start_date, end_date)
        names == {category_tbl[e.category].name : e \in DOMAIN qs}
        total(n) == AddScores([e \in {x \in DOMAIN qs : category_tbl[x.category].name = n}
                                 |-> qs[e]])
        order == CHOOSE f \in Orderings(names, [n \in names |-> <<n>>]) : TRUE
    IN [i \in 1..Cardinality(names) |-> [category__name |-> order[i], total |-> total(order[i])]]

----------------------------------------------------------------------------
(* Student.get_level, get_level_thresholds and get_progress_percentage *)

\* float('inf'), told apart from None (NULL) and from a number (Some(n))
Inf == <<"inf", "inf">>

\* a mutant of get_level: the upper bounds are taken exclusive (50 and 150 go up)
get_level_exclusive(pts, s) ==
    LET total == total_score(pts, s, NULL, NULL)
    IN IF total < 50 THEN "Beginner"
       ELSE IF total < 150 THEN "Intermediate"
       ELSE "Pro"

\* Student.get_level
get_level(pts, s) ==
    LET total == total_score(pts, s, NULL, NULL)
    IN IF total < 51 THEN "Beginner"
       ELSE IF total < 151 THEN "Intermediate"
       ELSE "Pro"

\* Student.get_level_thresholds
get_level_thresholds(pts, s) ==
    LET total == total_score(pts, s, NULL, NULL)
    IN IF total < 51 THEN
          [current |-> "Beginner", current_min |-> Some(0), current_max |-> Some(50),
           next |-> Some("Intermediate"), next_min |-> Some(51), next_max |-> Some(150)]
       ELSE IF total < 151 THEN
          [current |-> "Intermediate", current_min |-> Some(51), current_max |-> Some(150),
           next |-> Some("Pro"), next_min |-> Some(151), next_max |-> Inf]
       ELSE
          [current |-> "Pro", current_min |-> Some(151), current_max |-> Inf,
           next |-> NULL, next_min |-> NULL, next_max |-> NULL]

\* A float is modelled as the rational it stands for, <<numerator, denominator>>
\* with a positive denominator: rounding to a double is not modelled.
Rat(n, d) == <<n, d>>
RatLeq(a, b) == a[1] * b[2] <= b[1] * a[2]
RatEq(a, b) == a[1] * b[2] = b[1] * a[2]
RatMin(a, b) == IF RatLeq(a, b) THEN a ELSE b

\* a mutant of get_progress_percentage: the "+ 1" of current_range is missing
get_progress_percentage_no_plus_one(pts, s) ==
    LET thresholds == get_level_thresholds(pts, s)
        total == total_score(pts, s, NULL, NULL)
        current_range == thresholds.current_max[1] - thresholds.current_min[1]
        progress_in_range == total - thresholds.current_min[1]
    IN IF thresholds.next = NULL THEN Rat(100, 1)
       ELSE RatMin(Rat(100, 1), Rat(progress_in_range * 100, current_range))

\* Student.get_progress_percentage: min(100.0, (progress_in_range / current_range) * 100)
get_progress_percentage(pts, s) ==
    LET thresholds == get_level_thresholds(pts, s)
        total == total_score(pts, s, NULL, NULL)
        current_range == thresholds.current_max[1] - thresholds.current_min[1] + 1
        progress_in_range == total - thresholds.current_min[1]
    IN IF thresholds.next = NULL THEN Rat(100, 1)
       ELSE RatMin(Rat(100, 1), Rat(progress_in_range * 100, current_range))

----------------------------------------------------------------------------
(* Student.get_trend *)

\* the days of month m of year y
DaysIn(y, m) ==
    IF m = 2 THEN (IF (y % 4 = 0 /\ y % 100 # 0) \/ y % 400 = 0 THEN 29 ELSE 28)
    ELSE IF m \in {4, 6, 9, 11} THEN 30 ELSE 31

\* dt - timedelta(days=1)
PrevDay(dt) ==
    IF dt[3] > 1 THEN <<dt[1], dt[2], dt[3] - 1, dt[4]>>
    ELSE IF dt[2] > 1 THEN <<dt[1], dt[2] - 1, DaysIn(dt[1], dt[2] - 1), dt[4]>>
    ELSE <<dt[1] - 1, 12, 31, dt[4]>>

\* dt - timedelta(days=n)
RECURSIVE MinusDays(_, _)
MinusDays(dt, n) == IF n = 0 THEN dt ELSE MinusDays(PrevDay(dt), n - 1)

\* a mutant of get_trend: change_percent divides also when previous_points is 0
get_trend_divides(pts, s, days) ==
    LET current_start == MinusDays(now, days)
        previous_start == MinusDays(current_start, days)
        current_points == total_score(pts, s, Some(current_start), NULL)
        previous_points == total_score(pts, s, Some(previous_start), Some(current_start))
    IN [current |-> current_points,
        previous |-> previous_points,
        change |-> current_points - previous_points,
        change_percent |-> Rat((current_points - previous_points) * 100, Abs(previous_points)),
        direction |-> IF current_points > previous_points THEN "up"
                      ELSE IF current_points < previous_points THEN "down" ELSE "neutral"]

\* Student.get_trend(days)
get_trend(pts, s, days) ==
    LET current_start == MinusDays(now, days)
        previous_start == MinusDays(current_start, days)
        current_points == total_score(pts, s, Some(current_start), NULL)
        previous_points == total_score(pts, s, Some(previous_start), Some(current_start))
        change_percent ==
            IF previous_points = 0
            THEN (IF current_points > 0 THEN Rat(100, 1) ELSE Rat(0, 1))
            ELSE Rat((current_points - previous_points) * 100, Abs(previous_points))
    IN [current |-> current_points,
        previous |-> previous_points,
        change |-> current_points - previous_points,
        change_percent |-> change_percent,
        direction |-> IF current_points > previous_points THEN "up"
                      ELSE IF current_points < previous_points THEN "down" ELSE "neutral"]

----------------------------------------------------------------------------
(* Group.monthly_ranking and the ordering of views.student_rating *)

\* the first day of the month after start, at start's time of day
NextMonth(start) ==
    IF start[2] = 12 THEN <<start[1] + 1, 1, start[3], start[4]>>
    ELSE <<start[1], start[2] + 1, start[3], start[4]>>

\* where a store puts NULL under ORDER BY ... DESC: first (PostgreSQL, Oracle)
\* or last (SQLite, MySQL); the settings that pick the store are not in src/
NullsFirst == {TRUE, FALSE}

\* the annotation of monthly_ranking: Sum('points__score', filter=Q(date >= start,
\* date < end)) without a default, NULL for a student with no row in the window
MonthlyTotal(pts, s, start, end) == SqlSum(PointsOf(pts, s, Some(start), Some(end)))

\* the sort key of order_by('-monthly_total', 'full_name')
MonthlyKey(pts, s, start, end, nulls_first) ==
    LET total == MonthlyTotal(pts, s, start, end)
    IN IF total = NULL THEN <<IF nulls_first THEN 0 ELSE 2, 0, student_tbl[s].full_name>>
       ELSE <<1, -total[1], student_tbl[s].full_name>>

\* Group.monthly_ranking(month): every list the store may return
monthly_ranking(pts, g, month) ==
    LET start == [(IF month = NULL THEN now ELSE month[1]) EXCEPT ![3] = 1]
        end == NextMonth(start)
        S == {s \in DOMAIN student_tbl : student_tbl[s].group = g}
    IN UNION {
         {[i \in 1..Len(order) |->
             [id |-> order[i], full_name |-> student_tbl[order[i]].full_name,
              monthly_total |-> MonthlyTotal(pts, order[i], start, end)]]
          : order \in Orderings(S, [s \in S |-> MonthlyKey(pts, s, start, end, nulls_first)])}
         : nulls_first \in NullsFirst}

\* views.student_rating: group.students annotated with Sum('points__score',
\* default=0), ordered by ('-total_points', 'full_name')
student_rating(pts, g) ==
    LET S == {s \in DOMAIN student_tbl : student_tbl[s].group = g}
    IN {[i \in 1..Len(order) |->
           [id |-> order[i], full_name |-> student_tbl[order[i]].full_name,
            total_points |-> total_score(pts, order[i], NULL, NULL)]]
        : order \in Orderings(S, [s \in S |-> <<-total_score(pts, s, NULL, NULL),
                                                student_tbl[s].full_name>>])}

----------------------------------------------------------------------------
(* StudentPoint.clean, full_clean and save *)

\* a mutant of clean: the score is compared without abs()
clean_signed(category, score) ==
    IF score > category_tbl[category].max_score THEN "ValidationError" ELSE "ok"

\* StudentPoint.clean: the exception it raises, or "ok"
clean(category, score) ==
    IF Abs(score) > category_tbl[category].max_score THEN "ValidationError" ELSE "ok"

\* StudentPoint.full_clean for a row whose category may be None: clean() reads
\* self.category, which raises RelatedObjectDoesNotExist when there is none
full_clean(category, score) ==
    IF category = NULL THEN "RelatedObjectDoesNotExist"
    ELSE IF category[1] \notin DOMAIN category_tbl THEN "ValidationError"
    ELSE clean(category[1], score)

\* StudentPoint.save: full_clean, then the INSERT (old = NULL) or the UPDATE of
\* the row old; the ledger afterwards and the exception raised, if any
save(pts, old, student, category, score, date) ==
    LET raised == full_clean(category, score)
    IN IF raised # "ok" THEN [result |-> raised, points |-> pts]
       ELSE [result |-> "ok",
             points |-> InsertRow(IF old = NULL THEN pts ELSE DeleteRow(pts, old[1]),
                                  [student |-> student, category |-> category[1],
                                   score |-> score, date |-> date])]

----------------------------------------------------------------------------
(* check_and_assign_badges *)

\* Badge.objects.filter(is_active=True), in Badge.Meta's ordering by name
\* (names are unique)
ActiveBadges ==
    LET S == {b \in DOMAIN badge_tbl : badge_tbl[b].is_active}
    IN CHOOSE f \in Orderings(S, [b \in S |-> <<badge_tbl[b].name>>]) : TRUE

\* a mutant of HasBadge: the "already has this badge" check is missing
HasBadgeNever(sb, s, b) == FALSE

\* StudentBadge.objects.filter(student=student, badge=badge).exists()
HasBadge(sb, s, b) == BagIn([student |-> s, badge |-> b], sb)

\* a mutant of PositiveCount: the score__gt=0 filter is missing
PositiveCount_any_score(pts, s, slug) ==
    CountRows([e \in {x \in DOMAIN pts : x.student = s /\ x.category = slug} |-> pts[e]])

\* StudentPoint.objects.filter(student=student, category=<slug>, score__gt=0).count()
PositiveCount(pts, s, slug) ==
    CountRows([e \in {x \in DOMAIN pts :
                  x.student = s /\ x.category = slug /\ x.score > 0} |-> pts[e]])

\* a mutant of CountQualifies: without the category the count is taken as 0
CountQualifies_open(pts, s, slug, value) ==
    IF slug \in DOMAIN category_tbl THEN PositiveCount(pts, s, slug) >= value ELSE 0 >= value

\* the count criteria: the category is looked up by slug; without it the badge
\* does not qualify
CountQualifies(pts, s, slug, value) ==
    IF slug \in DOMAIN category_tbl THEN PositiveCount(pts, s, slug) >= value ELSE FALSE

\* student.group.students annotated with Sum('points__score', default=0) and
\* ordered by -total_points alone: every order the store may return
GroupByTotal(pts, g) ==
    LET S == {x \in DOMAIN student_tbl : student_tbl[x].group = g}
    IN Orderings(S, [x \in S |-> <<-total_score(pts, x, NULL, NULL)>>])

\* list(...).index(student.id) + 1
IndexOf(seq, x) == CHOOSE i \in 1..Len(seq) : seq[i] = x

\* the values `qualifies` may take for badge b: one, except for top_rank among
\* students with equal totals, where it follows the order the store returns
Qualifies(pts, s, b) ==
    LET type == badge_tbl[b].criteria_type
        value == badge_tbl[b].criteria_value
    IN CASE type = "total_points" -> {total_score(pts, s, NULL, NULL) >= value}
         [] type = "homework_completion" -> {CountQualifies(pts, s, "homework", value)}
         [] type = "participation_count" -> {CountQualifies(pts, s, "participation", value)}
         [] type = "attendance_count" -> {CountQualifies(pts, s, "attendance", value)}
         [] type = "top_rank" ->
              {IndexOf(order, s) <= value : order \in GroupByTotal(pts, student_tbl[s].group)}
         [] OTHER -> {FALSE}

\* StudentBadge.objects.create under unique_together = ('student', 'badge')
CreateStudentBadge(sb, s, b) ==
    IF BagIn([student |-> s, badge |-> b], sb)
    THEN [result |-> "IntegrityError", student_badges |-> sb]
    ELSE [result |-> "ok", student_badges |-> InsertRow(sb, [student |-> s, badge |-> b])]

\* the loop over the active badges `todo`: every outcome it may end in
RECURSIVE BadgeLoop(_, _, _, _, _)
BadgeLoop(pts, s, todo, sb, newly_earned) ==
    IF todo = <<>>
    THEN {[result |-> "ok", student_badges |-> sb, newly_earned |-> newly_earned]}
    ELSE LET badge == Head(todo)
         IN IF HasBadge(sb, s, badge)
            THEN BadgeLoop(pts, s, Tail(todo), sb, newly_earned)
            ELSE UNION {
                   IF qualifies
                   THEN LET created == CreateStudentBadge(sb, s, badge)
                        IN IF created.result # "ok"
                           THEN {[result |-> created.result, student_badges |-> sb,
                                  newly_earned |-> newly_earned]}
                           ELSE BadgeLoop(pts, s, Tail(todo), created.student_badges,
                                          Append(newly_earned, badge))
                   ELSE BadgeLoop(pts, s, Tail(todo), sb, newly_earned)
                   : qualifies \in Qualifies(pts, s, badge)}

\* a mutant of check_and_assign_badges: the student's badges are evaluated
\* afresh, so a badge whose criterion is no longer met is taken away
check_and_assign_badges_afresh(pts, sb, s) ==
    BadgeLoop(pts, s, ActiveBadges, [r \in {x \in DOMAIN sb : x.student # s} |-> sb[r]], <<>>)

\* check_and_assign_badges(student) run from start to end on the ledger pts and
\* the StudentBadge rows sb
check_and_assign_badges(pts, sb, s) == BadgeLoop(pts, s, ActiveBadges, sb, <<>>)

----------------------------------------------------------------------------
(* assign_monthly_rewards *)

rewards == <<15, 10, 5>>

\* month.replace(day=1, hour=0, minute=0, second=0, microsecond=0)
MonthStart(month) == <<month[1], month[2], 1, 0>>

\* a mutant of TopStudents: a student who holds a reward row of the month is
\* left out
TopStudents_once(pts, g, start, end) ==
    LET S == {x \in DOMAIN student_tbl :
                /\ student_tbl[x].group = g
                /\ total_score(pts, x, Some(start), Some(end)) > 0
                /\ ~\E e \in DOMAIN pts :
                      /\ e.student = x
                      /\ e.score \in {rewards[i] : i \in 1..Len(rewards)}
                      /\ DtLeq(start, e.date) /\ DtLess(e.date, end)}
    IN {Take(order, 3) :
          order \in Orderings(S, [x \in S |-> <<-total_score(pts, x, Some(start), Some(end))>>])}

\* a mutant of TopStudents: the events written at the time of the run are left
\* out of the monthly totals
TopStudents_until_now(pts, g, start, end) ==
    LET S == {x \in DOMAIN student_tbl :
                /\ student_tbl[x].group = g
                /\ total_score(pts, x, Some(start), Some(now)) > 0}
    IN {Take(order, 3) :
          order \in Orderings(S, [x \in S |-> <<-total_score(pts, x, Some(start), Some(now))>>])}

\* group.students annotated with the monthly Sum(default=0), filtered to
\* monthly_total > 0, ordered by -monthly_total alone, [:3]: every order the
\* store may return
TopStudents(pts, g, start, end) ==
    LET S == {x \in DOMAIN student_tbl :
                /\ student_tbl[x].group = g
                /\ total_score(pts, x, Some(start), Some(end)) > 0}
    IN {Take(order, 3) :
          order \in Orderings(S, [x \in S |-> <<-total_score(pts, x, Some(start), Some(end))>>])}

\* PointCategory.objects.first(): the first by name, or None
FirstCategory ==
    IF DOMAIN category_tbl = {} THEN NULL
    ELSE Some(CHOOSE c \in DOMAIN category_tbl :
                \A d \in DOMAIN category_tbl : category_tbl[c].name <= category_tbl[d].name)

\* homework_category or PointCategory.objects.first()
RewardCategory ==
    IF "homework" \in DOMAIN category_tbl THEN Some("homework") ELSE FirstCategory

\* a mutant of RewardStudents: the badges are evaluated on the ledger as it
\* was before the student's reward
RECURSIVE RewardStudents_check_first(_, _, _)
RewardStudents_check_first(top_students, idx, st) ==
    IF idx > Len(top_students) \/ st.result # "ok" THEN {st}
    ELSE IF idx > Len(rewards) THEN RewardStudents_check_first(top_students, idx + 1, st)
    ELSE LET student == top_students[idx]
             saved == save(st.points, NULL, student, RewardCategory, rewards[idx], now)
             stats == [st.stats EXCEPT !.students_rewarded = @ + 1,
                                       !.points_awarded = @ + rewards[idx]]
         IN IF saved.result # "ok" THEN {[st EXCEPT !.result = saved.result]}
            ELSE UNION {
                   RewardStudents_check_first(top_students, idx + 1,
                       [result |-> checked.result, points |-> saved.points,
                        student_badges |-> checked.student_badges, stats |-> stats])
                   : checked \in check_and_assign_badges(st.points, st.student_badges,
                                                         student)}

\* the loop over the top students of one group from position idx on; st is the
\* run so far: [result, points, student_badges, stats]
RECURSIVE RewardStudents(_, _, _)
RewardStudents(top_students, idx, st) ==
    IF idx > Len(top_students) \/ st.result # "ok" THEN {st}
    ELSE IF idx > Len(rewards) THEN RewardStudents(top_students, idx + 1, st)
    ELSE LET student == top_students[idx]
             saved == save(st.points, NULL, student, RewardCategory, rewards[idx], now)
             stats == [st.stats EXCEPT !.students_rewarded = @ + 1,
                                       !.points_awarded = @ + rewards[idx]]
         IN IF saved.result # "ok" THEN {[st EXCEPT !.result = saved.result]}
            ELSE UNION {
                   RewardStudents(top_students, idx + 1,
                       [result |-> checked.result, points |-> saved.points,
                        student_badges |-> checked.student_badges, stats |-> stats])
                   : checked \in check_and_assign_badges(saved.points, st.student_badges,
                                                         student)}

\* the loop over the groups
RECURSIVE RewardGroups(_, _, _, _)
RewardGroups(groups, start, end, st) ==
    IF groups = <<>> \/ st.result # "ok" THEN {st}
    ELSE LET counted == [st EXCEPT !.stats.groups_processed = @ + 1]
         IN UNION {
              UNION {RewardGroups(Tail(groups), start, end, after)
                     : after \in RewardStudents(top_students, 1, counted)}
              : top_students \in TopStudents(st.points, Head(groups), start, end)}

\* assign_monthly_rewards(month): every outcome of one run, with the rows it
\* leaves in the store (nothing wraps the run in a transaction)
assign_monthly_rewards(month) ==
    LET start == MonthStart(IF month = NULL THEN now ELSE month[1])
        end == NextMonth(start)
        G == DOMAIN group_tbl
    IN UNION {
         RewardGroups(groups, start, end,
             [result |-> "ok", points |-> points, student_badges |-> student_badges,
              stats |-> [groups_processed |-> 0, students_rewarded |-> 0,
                         points_awarded |-> 0]])
         : groups \in Orderings(G, [g \in G |-> <<group_tbl[g].name>>])}

----------------------------------------------------------------------------
(* The requests: the mentor's views, the admin, the management command *)

Response(op, result, value) == [op |-> op, result |-> result, value |-> value]

\* the mentor a row of the ledger belongs to (student__group__mentor)
MentorOf(s) == group_tbl[student_tbl[s].group].mentor

\* the rows left when the students gone are deleted: StudentPoint.student and
\* StudentBadge.student are on_delete=CASCADE
Cascade(B, gone) == [r \in {x \in DOMAIN B : x.student \notin gone} |-> B[r]]

\* Group.Meta.unique_together = ('mentor', 'name'): whether a row other than g
\* holds the pair.  GroupForm has no mentor field, so the form does not check
\* the pair and the store does
GroupNameTaken(m, g, name) ==
    \E h \in DOMAIN group_tbl \ {g} :
        group_tbl[h].mentor = m /\ group_tbl[h].name = name

\* views.group_create, POST: mentor m creates a group named name (NULL: the
\* field left blank); g is the id the store gives the row
group_create(m, g, name) ==
    /\ g \notin DOMAIN group_tbl
    /\ IF name = NULL THEN
          /\ last' = Response("group_create", "ValidationError", <<>>)
          /\ UNCHANGED group_tbl
       ELSE IF GroupNameTaken(m, g, name[1]) THEN
          /\ last' = Response("group_create", "IntegrityError", <<>>)
          /\ UNCHANGED group_tbl
       ELSE
          /\ last' = Response("group_create", "ok", <<>>)
          /\ group_tbl' = [h \in DOMAIN group_tbl \cup {g} |->
                             IF h = g THEN [mentor |-> m, name |-> name[1]]
                             ELSE group_tbl[h]]
    /\ UNCHANGED <<student_tbl, badge_tbl, category_tbl, points, student_badges,
                   now, workers>>

\* views.group_edit, POST: mentor m renames group g
group_edit(m, g, name) ==
    /\ IF ~(g \in DOMAIN group_tbl /\ group_tbl[g].mentor = m) THEN
          /\ last' = Response("group_edit", "Http404", <<>>)
          /\ UNCHANGED group_tbl
       ELSE IF name = NULL THEN
          /\ last' = Response("group_edit", "ValidationError", <<>>)
          /\ UNCHANGED group_tbl
       ELSE IF GroupNameTaken(m, g, name[1]) THEN
          /\ last' = Response("group_edit", "IntegrityError", <<>>)
          /\ UNCHANGED group_tbl
       ELSE
          /\ last' = Response("group_edit", "ok", <<>>)
          /\ group_tbl' = [group_tbl EXCEPT ![g].name = name[1]]
    /\ UNCHANGED <<student_tbl, badge_tbl, category_tbl, points, student_badges,
                   now, workers>>

\* views.group_delete: mentor m deletes group g, and with it its students and
\* their point events and badges
group_delete(m, g) ==
    /\ IF ~(g \in DOMAIN group_tbl /\ group_tbl[g].mentor = m) THEN
          /\ last' = Response("group_delete", "Http404", <<>>)
          /\ UNCHANGED <<group_tbl, student_tbl, points, student_badges>>
       ELSE
          LET gone == {s \in DOMAIN student_tbl : student_tbl[s].group = g}
          IN /\ last' = Response("group_delete", "ok", <<>>)
             /\ group_tbl' = [h \in DOMAIN group_tbl \ {g} |-> group_tbl[h]]
             /\ student_tbl' = [s \in DOMAIN student_tbl \ gone |-> student_tbl[s]]
             /\ points' = Cascade(points, gone)
             /\ student_badges' = Cascade(student_badges, gone)
    /\ UNCHANGED <<badge_tbl, category_tbl, now, workers>>

\* views.student_create, POST: mentor m adds a student named name to group g;
\* s is the id the store gives the row
student_create(m, g, s, name) ==
    /\ s \notin DOMAIN student_tbl
    /\ IF ~(g \in DOMAIN group_tbl /\ group_tbl[g].mentor = m) THEN
          /\ last' = Response("student_create", "Http404", <<>>)
          /\ UNCHANGED student_tbl
       ELSE IF name = NULL THEN
          /\ last' = Response("student_create", "ValidationError", <<>>)
          /\ UNCHANGED student_tbl
       ELSE
          /\ last' = Response("student_create", "ok", <<>>)
          /\ student_tbl' = [x \in DOMAIN student_tbl \cup {s} |->
                               IF x = s THEN [group |-> g, full_name |-> name[1]]
                               ELSE student_tbl[x]]
    /\ UNCHANGED <<group_tbl, badge_tbl, category_tbl, points, student_badges,
                   now, workers>>

\* views.student_edit, POST: mentor m renames student s
student_edit(m, s, name) ==
    /\ IF ~(s \in DOMAIN student_tbl /\ group_tbl[student_tbl[s].group].mentor = m) THEN
          /\ last' = Response("student_edit", "Http404", <<>>)
          /\ UNCHANGED student_tbl
       ELSE IF name = NULL THEN
          /\ last' = Response("student_edit", "ValidationError", <<>>)
          /\ UNCHANGED student_tbl
       ELSE
          /\ last' = Response("student_edit", "ok", <<>>)
          /\ student_tbl' = [student_tbl EXCEPT ![s].full_name = name[1]]
    /\ UNCHANGED <<group_tbl, badge_tbl, category_tbl, points, student_badges,
                   now, workers>>

\* views.student_delete: mentor m deletes student s, and with it the student's
\* point events and badges
student_delete(m, s) ==
    /\ IF ~(s \in DOMAIN student_tbl /\ group_tbl[student_tbl[s].group].mentor = m) THEN
          /\ last' = Response("student_delete", "Http404", <<>>)
          /\ UNCHANGED <<student_tbl, points, student_badges>>
       ELSE
          /\ last' = Response("student_delete", "ok", <<>>)
          /\ student_tbl' = [x \in DOMAIN student_tbl \ {s} |-> student_tbl[x]]
          /\ points' = Cascade(points, {s})
          /\ student_badges' = Cascade(student_badges, {s})
    /\ UNCHANGED <<group_tbl, badge_tbl, category_tbl, now, workers>>

\* views.student_list, POST: mentor m adds a point event for student s of group g
student_list(m, g, s, c, v) ==
    LET found == g \in DOMAIN group_tbl /\ group_tbl[g].mentor = m
        form == full_clean(Some(c), v)
        target == s \in DOMAIN student_tbl /\ student_tbl[s].group = g
        saved == save(points, NULL, s, Some(c), v, now)
    IN /\ IF ~found THEN
             /\ last' = Response("student_list", "Http404", <<>>)
             /\ UNCHANGED points
          ELSE IF form # "ok" THEN
             /\ last' = Response("student_list", form, <<>>)
             /\ UNCHANGED points
          ELSE IF ~target THEN
             /\ last' = Response("student_list", "Http404", <<>>)
             /\ UNCHANGED points
          ELSE
             /\ CountRows(points) < MaxPoints
             /\ last' = Response("student_list", saved.result, <<>>)
             /\ points' = saved.points
       /\ UNCHANGED <<directory, category_tbl, student_badges, now, workers>>

\* views.point_edit, POST: mentor m sets the category and the score of row e
point_edit(m, e, c, v) ==
    LET found == MentorOf(e.student) = m
        form == full_clean(Some(c), v)
        saved == save(points, Some(e), e.student, Some(c), v, e.date)
    IN /\ e \in DOMAIN points
       /\ IF ~found THEN
             /\ last' = Response("point_edit", "Http404", <<>>)
             /\ UNCHANGED points
          ELSE IF form # "ok" THEN
             /\ last' = Response("point_edit", form, <<>>)
             /\ UNCHANGED points
          ELSE
             /\ last' = Response("point_edit", saved.result, <<>>)
             /\ points' = saved.points
       /\ UNCHANGED <<directory, category_tbl, student_badges, now, workers>>

\* a mutant of delete_point: the row is looked up by its id alone
delete_point_any_mentor(m, e) ==
    /\ e \in DOMAIN points
    /\ last' = Response("delete_point", "ok", <<>>)
    /\ points' = DeleteRow(points, e)
    /\ UNCHANGED <<directory, category_tbl, student_badges, now, workers>>

\* views.delete_point: mentor m deletes row e
delete_point(m, e) ==
    /\ e \in DOMAIN points
    /\ IF MentorOf(e.student) # m THEN
          /\ last' = Response("delete_point", "Http404", <<>>)
          /\ UNCHANGED points
       ELSE
          /\ last' = Response("delete_point", "ok", <<>>)
          /\ points' = DeleteRow(points, e)
    /\ UNCHANGED <<directory, category_tbl, student_badges, now, workers>>

\* admin.PointCategoryAdmin, list_editable max_score: the admin sets the
\* max_score of category c to n; no stored row is looked at
PointCategoryAdmin(c, n) ==
    /\ c \in DOMAIN category_tbl
    /\ n >= 0
    /\ category_tbl[c].max_score # n
    /\ category_tbl' = [category_tbl EXCEPT ![c].max_score = n]
    /\ last' = Response("PointCategoryAdmin", "ok", <<>>)
    /\ UNCHANGED <<directory, points, student_badges, now, workers>>

\* admin.StudentPointAdmin, add view: the admin stores a point event of student
\* s dated d
StudentPointAdmin(s, c, v, d) ==
    LET saved == save(points, NULL, s, Some(c), v, d)
    IN /\ s \in DOMAIN student_tbl
       /\ c \in DOMAIN category_tbl
       /\ CountRows(points) < MaxPoints
       /\ points' = saved.points
       /\ last' = Response("StudentPointAdmin", saved.result, <<>>)
       /\ UNCHANGED <<directory, category_tbl, student_badges, now, workers>>

\* admin.BadgeAdmin, list_editable is_active: the admin switches badge b on or off
BadgeAdmin(b, active) ==
    /\ b \in DOMAIN badge_tbl
    /\ badge_tbl[b].is_active # active
    /\ badge_tbl' = [badge_tbl EXCEPT ![b].is_active = active]
    /\ last' = Response("BadgeAdmin", "ok", <<>>)
    /\ UNCHANGED <<group_tbl, student_tbl, category_tbl, points, student_badges, now, workers>>

\* check_and_assign_badges(student) called on its own and run to its end
CheckBadges(s) ==
    /\ s \in DOMAIN student_tbl
    /\ \E out \in check_and_assign_badges(points, student_badges, s) :
         /\ student_badges' = out.student_badges
         /\ last' = Response("check_and_assign_badges", out.result,
                             [student |-> s, newly_earned |-> out.newly_earned])
    /\ UNCHANGED <<directory, category_tbl, points, now, workers>>

\* check_and_assign_badges(student) entered by worker w: newly_earned = [] and
\* the active badges are read
BadgeCall(w, s) ==
    /\ pc[w] = "idle"
    /\ s \in DOMAIN student_tbl
    /\ pc' = [pc EXCEPT ![w] = "exists"]
    /\ loc' = [loc EXCEPT ![w] = [student |-> s, todo |-> ActiveBadges, newly_earned |-> <<>>]]
    /\ UNCHANGED <<directory, category_tbl, points, student_badges, now, last>>

\* the head of the loop and its "already has this badge" query; after the last
\* badge the call returns newly_earned
BadgeExists(w) ==
    /\ pc[w] = "exists"
    /\ IF loc[w].todo = <<>> THEN
          /\ pc' = [pc EXCEPT ![w] = "idle"]
          /\ loc' = [loc EXCEPT ![w] = <<>>]
          /\ last' = Response("check_and_assign_badges", "ok",
                              [student |-> loc[w].student,
                               newly_earned |-> loc[w].newly_earned])
       ELSE IF HasBadge(student_badges, loc[w].student, Head(loc[w].todo)) THEN
          /\ loc' = [loc EXCEPT ![w].todo = Tail(@)]
          /\ UNCHANGED <<pc, last>>
       ELSE
          /\ pc' = [pc EXCEPT ![w] = "qualifies"]
          /\ UNCHANGED <<loc, last>>
    /\ UNCHANGED <<directory, category_tbl, points, student_badges, now>>

\* the queries that set `qualifies` for the badge at hand
BadgeQualifies(w) ==
    /\ pc[w] = "qualifies"
    /\ \E qualifies \in Qualifies(points, loc[w].student, Head(loc[w].todo)) :
         IF qualifies THEN
            /\ pc' = [pc EXCEPT ![w] = "create"]
            /\ UNCHANGED loc
         ELSE
            /\ pc' = [pc EXCEPT ![w] = "exists"]
            /\ loc' = [loc EXCEPT ![w].todo = Tail(@)]
    /\ UNCHANGED <<directory, category_tbl, points, student_badges, now, last>>

\* StudentBadge.objects.create and newly_earned.append; an IntegrityError leaves
\* the call
BadgeCreate(w) ==
    /\ pc[w] = "create"
    /\ LET created == CreateStudentBadge(student_badges, loc[w].student, Head(loc[w].todo))
       IN IF created.result # "ok" THEN
             /\ pc' = [pc EXCEPT ![w] = "idle"]
             /\ loc' = [loc EXCEPT ![w] = <<>>]
             /\ last' = Response("check_and_assign_badges", created.result,
                                 [student |-> loc[w].student, newly_earned |-> <<>>])
             /\ UNCHANGED student_badges
          ELSE
             /\ student_badges' = created.student_badges
             /\ pc' = [pc EXCEPT ![w] = "exists"]
             /\ loc' = [loc EXCEPT ![w].todo = Tail(@),
                                   ![w].newly_earned = Append(@, Head(loc[w].todo))]
             /\ UNCHANGED last
    /\ UNCHANGED <<directory, category_tbl, points, now>>

\* a mutant of monthly_rewards: the reward events are dated the first day of
\* the rewarded month
monthly_rewards_backdated(month) ==
    /\ \E out \in assign_monthly_rewards(month) :
         LET new == out.points (-) points
             start == MonthStart(IF month = NULL THEN now ELSE month[1])
             dated == {[r EXCEPT !.date = start] : r \in DOMAIN new}
         IN /\ CountRows(out.points) <= MaxPoints
            /\ points' = points (+) [d \in dated |->
                            CountRows([r \in {x \in DOMAIN new :
                                                [x EXCEPT !.date = start] = d} |-> new[r]])]
            /\ student_badges' = out.student_badges
            /\ last' = Response("assign_monthly_rewards", out.result, out.stats)
    /\ UNCHANGED <<directory, category_tbl, now, workers>>

\* management command monthly_rewards: month is NULL (no --month) or Some(the
\* datetime parsed from --month)
monthly_rewards(month) ==
    /\ \E out \in assign_monthly_rewards(month) :
         /\ CountRows(out.points) <= MaxPoints
         /\ points' = out.points
         /\ student_badges' = out.student_badges
         /\ last' = Response("assign_monthly_rewards", out.result, out.stats)
    /\ UNCHANGED <<directory, category_tbl, now, workers>>

\* the same command where runs follow one another: the ledger has room for the
\* rows of a further run
monthly_rewards_rerun(month) ==
    /\ \E out \in assign_monthly_rewards(month) :
         /\ CountRows(out.points) <= MaxRows
         /\ points' = out.points
         /\ student_badges' = out.student_badges
         /\ last' = Response("assign_monthly_rewards", out.result, out.stats)
    /\ UNCHANGED <<directory, category_tbl, now, workers>>

\* the same command on a store that holds MaxRows rows before the first run:
\* the ledger has room for the rewards of a run to a group of two
monthly_rewards_stocked(month) ==
    /\ \E out \in assign_monthly_rewards(month) :
         /\ CountRows(out.points) <= MaxRows + 2
         /\ points' = out.points
         /\ student_badges' = out.student_badges
         /\ last' = Response("assign_monthly_rewards", out.result, out.stats)
    /\ UNCHANGED <<directory, category_tbl, now, workers>>

\* assign_monthly_rewards(month) entered by worker w: start and end are
\* computed, the groups and the homework category are read.  The category is
\* read once and the object kept, so its max_score is the one of this moment
RunCall(w, month) ==
    /\ pc[w] = "idle"
    /\ CountRows(points) <= MaxPoints
    /\ LET start == MonthStart(IF month = NULL THEN now ELSE month[1])
           G == DOMAIN group_tbl
       IN \E groups \in Orderings(G, [g \in G |-> <<group_tbl[g].name>>]) :
            loc' = [loc EXCEPT ![w] =
                      [start |-> start, end |-> NextMonth(start), groups |-> groups,
                       homework_category |->
                          IF "homework" \in DOMAIN category_tbl
                          THEN Some(category_tbl["homework"].max_score) ELSE NULL,
                       top_students |-> <<>>, idx |-> 1,
                       stats |-> [groups_processed |-> 0, students_rewarded |-> 0,
                                  points_awarded |-> 0],
                       written |-> <<>>]]
    /\ pc' = [pc EXCEPT ![w] = "group"]
    /\ UNCHANGED <<directory, category_tbl, points, student_badges, now, last>>

\* the head of the loop over the groups: the top students of the next group
\* are read; after the last group the run returns stats
RunGroup(w) ==
    /\ pc[w] = "group"
    /\ IF loc[w].groups = <<>> THEN
          /\ pc' = [pc EXCEPT ![w] = "idle"]
          /\ loc' = [loc EXCEPT ![w] = <<>>]
          /\ last' = Response("assign_monthly_rewards", "ok", loc[w].stats)
       ELSE
          /\ \E top_students \in TopStudents(points, Head(loc[w].groups),
                                             loc[w].start, loc[w].end) :
               loc' = [loc EXCEPT ![w].groups = Tail(@),
                                  ![w].top_students = top_students,
                                  ![w].idx = 1,
                                  ![w].stats.groups_processed = @ + 1]
          /\ pc' = [pc EXCEPT ![w] = "reward"]
          /\ UNCHANGED last
    /\ UNCHANGED <<directory, category_tbl, points, student_badges, now>>

\* a mutant of RunReward: the run is one transaction, and a failure takes back
\* the rows the run has written
RunReward_atomic(w) ==
    /\ pc[w] = "reward"
    /\ IF loc[w].idx > Len(loc[w].top_students) THEN
          /\ pc' = [pc EXCEPT ![w] = "group"]
          /\ UNCHANGED <<loc, last, points, student_badges>>
       ELSE
          LET student == loc[w].top_students[loc[w].idx]
              reward_points == rewards[loc[w].idx]
              category == IF loc[w].homework_category # NULL THEN Some("homework")
                          ELSE FirstCategory
              max_score == IF loc[w].homework_category # NULL
                           THEN loc[w].homework_category[1]
                           ELSE category_tbl[category[1]].max_score
              raised == IF category = NULL THEN "RelatedObjectDoesNotExist"
                        ELSE IF Abs(reward_points) > max_score THEN "ValidationError"
                        ELSE "ok"
              row == [student |-> student, category |-> category[1],
                      score |-> reward_points, date |-> now]
          IN IF raised # "ok" THEN
                /\ pc' = [pc EXCEPT ![w] = "idle"]
                /\ loc' = [loc EXCEPT ![w] = <<>>]
                /\ last' = Response("assign_monthly_rewards", raised, loc[w].stats)
                /\ LET rows == {loc[w].written[i] : i \in 1..Len(loc[w].written)}
                   IN /\ points' = [r \in DOMAIN points \ rows |-> points[r]]
                      /\ student_badges' =
                            [r \in DOMAIN student_badges \ rows |-> student_badges[r]]
             ELSE
                /\ points' = InsertRow(points, row)
                /\ \E checked \in check_and_assign_badges(InsertRow(points, row),
                                                          student_badges, student) :
                     /\ student_badges' = checked.student_badges
                     /\ loc' = [loc EXCEPT
                          ![w].idx = @ + 1,
                          ![w].stats.students_rewarded = @ + 1,
                          ![w].stats.points_awarded = @ + reward_points,
                          ![w].written = @ \o <<row>> \o
                             [i \in 1..Len(checked.newly_earned) |->
                                [student |-> student, badge |-> checked.newly_earned[i]]]]
                /\ UNCHANGED <<pc, last>>
    /\ UNCHANGED <<directory, category_tbl, now>>

\* the body of the loop over the top students: the reward is created in the
\* homework category read at the start or, without it, in
\* PointCategory.objects.first() as it is now; then the student's badges are
\* evaluated.  An exception leaves the run, and the rows written so far stay
\* (loc.written lists them)
RunReward(w) ==
    /\ pc[w] = "reward"
    /\ IF loc[w].idx > Len(loc[w].top_students) THEN
          /\ pc' = [pc EXCEPT ![w] = "group"]
          /\ UNCHANGED <<loc, last, points, student_badges>>
       ELSE
          LET student == loc[w].top_students[loc[w].idx]
              reward_points == rewards[loc[w].idx]
              category == IF loc[w].homework_category # NULL THEN Some("homework")
                          ELSE FirstCategory
              max_score == IF loc[w].homework_category # NULL
                           THEN loc[w].homework_category[1]
                           ELSE category_tbl[category[1]].max_score
              raised == IF category = NULL THEN "RelatedObjectDoesNotExist"
                        ELSE IF Abs(reward_points) > max_score THEN "ValidationError"
                        ELSE "ok"
              row == [student |-> student, category |-> category[1],
                      score |-> reward_points, date |-> now]
          IN IF raised # "ok" THEN
                /\ pc' = [pc EXCEPT ![w] = "idle"]
                /\ loc' = [loc EXCEPT ![w] = <<>>]
                /\ last' = Response("assign_monthly_rewards", raised, loc[w].stats)
                /\ UNCHANGED <<points, student_badges>>
             ELSE
                /\ points' = InsertRow(points, row)
                /\ \E checked \in check_and_assign_badges(InsertRow(points, row),
                                                          student_badges, student) :
                     /\ student_badges' = checked.student_badges
                     /\ loc' = [loc EXCEPT
                          ![w].idx = @ + 1,
                          ![w].stats.students_rewarded = @ + 1,
                          ![w].stats.points_awarded = @ + reward_points,
                          ![w].written = @ \o <<row>> \o
                             [i \in 1..Len(checked.newly_earned) |->
                                [student |-> student, badge |-> checked.newly_earned[i]]]]
                /\ UNCHANGED <<pc, last>>
    /\ UNCHANGED <<directory, category_tbl, now>>

\* the same command run again and again at one time on a ledger that holds no
\* other event of that time: at most MaxRuns runs
monthly_rewards_again(month) ==
    /\ \A r \in DOMAIN points : r.date = now => points[r] < MaxRuns
    /\ \E out \in assign_monthly_rewards(month) :
         /\ points' = out.points
         /\ student_badges' = out.student_badges
         /\ last' = Response("assign_monthly_rewards", out.result, out.stats)
    /\ UNCHANGED <<directory, category_tbl, now, workers>>

\* time passes: the clock moves to the next of the instants
Tick(instants) ==
    /\ \E t \in instants :
         /\ DtLess(now, t)
         /\ \A u \in instants : DtLess(now, u) => DtLeq(t, u)
         /\ now' = t
    /\ UNCHANGED <<directory, category_tbl, points, student_badges, last, workers>>

----------------------------------------------------------------------------
(* The ledger: inserts, edits, deletes, max_score changes and reward runs *)

Mentors == {"m1", "m2"}

\* the scores a mentor submits
Scores == {-11, 10}

\* the max_score values the admin sets (the default is 10)
MaxScores == {10, 15}

\* the instants of the clock: 1 December 2024 and 1 January 2025, at midnight
Instants == {<<2024, 12, 1, 0>>, <<2025, 1, 1, 0>>}

NoResponse == Response("none", "ok", <<>>)

InitDirectory ==
    /\ group_tbl = [g \in {"g1", "g2"} |->
                      IF g = "g1" THEN [mentor |-> "m1", name |-> 1]
                      ELSE [mentor |-> "m2", name |-> 2]]
    /\ student_tbl = [s \in {"s1", "s2", "s3"} |->
                        CASE s = "s1" -> [group |-> "g1", full_name |-> 2]
                          [] s = "s2" -> [group |-> "g1", full_name |-> 1]
                          [] s = "s3" -> [group |-> "g2", full_name |-> 3]]

InitWorkers ==
    /\ pc = [w \in {} |-> "idle"]
    /\ loc = [w \in {} |-> <<>>]

Init ==
    /\ InitDirectory
    /\ InitWorkers
    /\ category_tbl = [c \in {"homework", "discipline"} |->
                         IF c = "homework" THEN [name |-> 2, max_score |-> 10]
                         ELSE [name |-> 1, max_score |-> 10]]
    /\ badge_tbl = [b \in {} |-> <<>>]
    /\ points = EmptyBag
    /\ student_badges = EmptyBag
    /\ now = <<2024, 12, 1, 0>>
    /\ last = NoResponse

Next ==
    \/ \E m \in Mentors, g \in DOMAIN group_tbl, s \in DOMAIN student_tbl,
          c \in DOMAIN category_tbl, v \in Scores : student_list(m, g, s, c, v)
    \/ \E m \in Mentors, e \in DOMAIN points,
          c \in DOMAIN category_tbl, v \in Scores : point_edit(m, e, c, v)
    \/ \E m \in Mentors, e \in DOMAIN points : delete_point(m, e)
    \/ \E c \in DOMAIN category_tbl, n \in MaxScores : PointCategoryAdmin(c, n)
    \/ monthly_rewards(NULL)

Spec == Init /\ [][Next]_vars

----------------------------------------------------------------------------
(* Claims about the ledger *)

\* the sum of the scores of the stored rows of student s, score value by score
\* value: v times the number of s's rows with score v
RECURSIVE SumByValue(_, _)
SumByValue(s, values) ==
    IF values = {} THEN 0
    ELSE LET v == CHOOSE x \in values : \A y \in values : x >= y
             n == CountRows([e \in {x \in DOMAIN points : x.student = s /\ x.score = v}
                               |-> points[e]])
         IN v * n + SumByValue(s, values \ {v})

LedgerSum(s) == SumByValue(s, {e.score : e \in DOMAIN points})

\* C1: in every reachable state, total_score() with no date range equals the sum
\* of the scores of the student's stored point events, and is 0 when the
\* student has none.
C1_TotalIsLedgerSum ==
    \A s \in DOMAIN student_tbl :
        LET total == total_score(points, s, NULL, NULL)
        IN /\ total = LedgerSum(s)
           /\ (\A e \in DOMAIN points : e.student # s) => total = 0

\* C1 witness: after a reward run one student holds an award and the reward
\* (10 + 15) and another holds nothing
C1_Witness ==
    /\ last.op = "assign_monthly_rewards"
    /\ last.result = "ok"
    /\ \E s \in DOMAIN student_tbl : total_score(points, s, NULL, NULL) = 25
    /\ \E s \in DOMAIN student_tbl : \A e \in DOMAIN points : e.student # s

\* the row a request writes
Row(s, c, v, d) == [student |-> s, category |-> c, score |-> v, date |-> d]

C3_ScoreWithinMax ==
    \A e \in DOMAIN points : Abs(e.score) <= category_tbl[e.category].max_score

----------------------------------------------------------------------------
(* The levels: a student's page is asked for over ledgers of every total *)

\* the largest total, award or deduction, of the ledgers the levels are read over
MaxTotal == 160

\* a model method of Student is called on student s
CallGetLevel(s) ==
    /\ last' = Response("get_level", "ok", [student |-> s, level |-> get_level(points, s)])
    /\ UNCHANGED <<directory, category_tbl, points, student_badges, now, workers>>

CallGetLevelThresholds(s) ==
    /\ last' = Response("get_level_thresholds", "ok",
                        [student |-> s, thresholds |-> get_level_thresholds(points, s)])
    /\ UNCHANGED <<directory, category_tbl, points, student_badges, now, workers>>

CallGetProgressPercentage(s) ==
    /\ last' = Response("get_progress_percentage", "ok",
                        [student |-> s, progress |-> get_progress_percentage(points, s)])
    /\ UNCHANGED <<directory, category_tbl, points, student_badges, now, workers>>

\* the ledger holds no row or one row of student s1, of any score up to
\* MaxTotal, in a category whose max_score admits it
InitLevel ==
    /\ InitDirectory
    /\ InitWorkers
    /\ category_tbl = [c \in {"homework"} |-> [name |-> 1, max_score |-> MaxTotal]]
    /\ badge_tbl = [b \in {} |-> <<>>]
    /\ \E v \in -MaxTotal..MaxTotal :
         points = IF v = 0 THEN EmptyBag
                  ELSE SetToBag({Row("s1", "homework", v, <<2024, 12, 1, 0>>)})
    /\ student_badges = EmptyBag
    /\ now = <<2024, 12, 1, 0>>
    /\ last = NoResponse

NextLevel ==
    \/ \E s \in DOMAIN student_tbl : CallGetLevel(s)
    \/ \E s \in DOMAIN student_tbl : CallGetLevelThresholds(s)
    \/ \E s \in DOMAIN student_tbl : CallGetProgressPercentage(s)

SpecLevel == InitLevel /\ [][NextLevel]_vars

\* C4: get_level() is Beginner for a total in [0,50], Intermediate in [51,150]
\* and Pro from 151 on, and it names the 'current' level of
\* get_level_thresholds().
C4_LevelBoundaries ==
    \A s \in DOMAIN student_tbl :
        LET total == LedgerSum(s)
        IN /\ (last.op = "get_level" /\ last.value.student = s)
                => /\ (0 <= total /\ total <= 50) => last.value.level = "Beginner"
                   /\ (51 <= total /\ total <= 150) => last.value.level = "Intermediate"
                   /\ 151 <= total => last.value.level = "Pro"
                   /\ last.value.level = get_level_thresholds(points, s).current
           /\ (last.op = "get_level_thresholds" /\ last.value.student = s)
                => last.value.thresholds.current = get_level(points, s)

\* C4 witness: get_level() has answered Intermediate for a total of 150
C4_Witness ==
    /\ last.op = "get_level"
    /\ last.value.level = "Intermediate"
    /\ LedgerSum(last.value.student) = 150

\* C5: get_progress_percentage() is (total - current_min) * 100 /
\* (current_max - current_min + 1) of the current level capped at 100, and 100
\* at Pro: total * 100 / 51 below 51, (total - 51) * 100 / 100 from 51 to 150
\* (0 at 51, 99 at 150), 100 from 151 on.  The float is read as the rational
\* it stands for.
C5_ProgressFormula ==
    \A s \in DOMAIN student_tbl :
        (last.op = "get_progress_percentage" /\ last.value.student = s)
        => LET total == LedgerSum(s)
               progress == last.value.progress
           IN /\ total <= 50 => RatEq(progress, Rat(total * 100, 51))
              /\ (51 <= total /\ total <= 150) => RatEq(progress, Rat((total - 51) * 100, 100))
              /\ total = 51 => RatEq(progress, Rat(0, 1))
              /\ total = 150 => RatEq(progress, Rat(99, 1))
              /\ total >= 151 => progress = Rat(100, 1)

\* C5 witness: get_progress_percentage() has answered for a total of 150
C5_Witness ==
    /\ last.op = "get_progress_percentage"
    /\ LedgerSum(last.value.student) = 150
    /\ RatEq(last.value.progress, Rat(99, 1))

\* C6: get_progress_percentage() is between 0 and 100 for every student of every
\* reachable ledger, students with a negative total included.
C6_ProgressWithinRange ==
    \A s \in DOMAIN student_tbl :
        /\ RatLeq(Rat(0, 1), get_progress_percentage(points, s))
        /\ RatLeq(get_progress_percentage(points, s), Rat(100, 1))

----------------------------------------------------------------------------
(* The rankings: point events over two months, and the rankings read *)

\* the scores a mentor submits while the rankings are read
RankScores == {-5, 5}

\* Group.monthly_ranking(month) is called for group g
CallMonthlyRanking(g, month) ==
    /\ \E ranking \in monthly_ranking(points, g, month) :
         last' = Response("monthly_ranking", "ok",
                          [group |-> g,
                           start |-> [(IF month = NULL THEN now ELSE month[1]) EXCEPT ![3] = 1],
                           ranking |-> ranking])
    /\ UNCHANGED <<directory, category_tbl, points, student_badges, now, workers>>

\* views.student_rating is asked for by mentor m for group g
CallStudentRating(m, g) ==
    /\ IF group_tbl[g].mentor # m
       THEN last' = Response("student_rating", "Http404", <<>>)
       ELSE \E ranking \in student_rating(points, g) :
              last' = Response("student_rating", "ok", [group |-> g, ranking |-> ranking])
    /\ UNCHANGED <<directory, category_tbl, points, student_badges, now, workers>>

InitRanking ==
    /\ InitDirectory
    /\ InitWorkers
    /\ category_tbl = [c \in {"homework"} |-> [name |-> 1, max_score |-> 10]]
    /\ badge_tbl = [b \in {} |-> <<>>]
    /\ points = EmptyBag
    /\ student_badges = EmptyBag
    /\ now = <<2024, 12, 1, 0>>
    /\ last = NoResponse

NextRanking ==
    \/ \E m \in Mentors, g \in DOMAIN group_tbl, s \in DOMAIN student_tbl,
          c \in DOMAIN category_tbl, v \in RankScores : student_list(m, g, s, c, v)
    \/ \E m \in Mentors, e \in DOMAIN points : delete_point(m, e)
    \/ Tick(Instants)
    \/ \E g \in DOMAIN group_tbl, month \in {NULL} \cup {Some(t) : t \in Instants} :
          CallMonthlyRanking(g, month)
    \/ \E m \in Mentors, g \in DOMAIN group_tbl : CallStudentRating(m, g)

SpecRanking == InitRanking /\ [][NextRanking]_vars

\* the sum of the scores of the rows of student s dated in [start, end), score
\* value by score value; 0 when there is none
RECURSIVE WindowSumByValue(_, _, _, _)
WindowSumByValue(s, start, end, values) ==
    IF values = {} THEN 0
    ELSE LET v == CHOOSE x \in values : \A y \in values : x >= y
             n == CountRows([e \in {x \in DOMAIN points :
                                      /\ x.student = s /\ x.score = v
                                      /\ DtLeq(start, x.date) /\ DtLess(x.date, end)}
                               |-> points[e]])
         IN v * n + WindowSumByValue(s, start, end, values \ {v})

WindowSum(s, start, end) ==
    WindowSumByValue(s, start, end, {e.score : e \in DOMAIN points})

\* C7: a ranking lists the students by summed score descending, students with
\* equal summed score by full name ascending; this is said of the monthly
\* ranking over its window and of the all-time ordering of student_rating.
\* (The rank is the position in the list.)
C7_RankingOrder ==
    /\ last.op = "monthly_ranking" =>
         LET r == last.value.ranking
             start == last.value.start
             sum(i) == WindowSum(r[i].id, start, NextMonth(start))
         IN \A i, j \in 1..Len(r) :
              i < j => \/ sum(i) > sum(j)
                       \/ sum(i) = sum(j) /\ r[i].full_name <= r[j].full_name
    /\ (last.op = "student_rating" /\ last.result = "ok") =>
         LET r == last.value.ranking
         IN \A i, j \in 1..Len(r) :
              i < j => \/ LedgerSum(r[i].id) > LedgerSum(r[j].id)
                       \/ /\ LedgerSum(r[i].id) = LedgerSum(r[j].id)
                          /\ r[i].full_name <= r[j].full_name

\* C8: monthly_ranking returns every student of the group exactly once; a
\* student with no point event in the window is reported with total 0, not
\* null, after every student with a positive total and before every student
\* with a negative total.
C8_RankingInclusive ==
    last.op = "monthly_ranking" =>
        LET r == last.value.ranking
            start == last.value.start
            sum(i) == WindowSum(r[i].id, start, NextMonth(start))
            empty(i) == \A e \in DOMAIN points :
                           ~(/\ e.student = r[i].id
                             /\ DtLeq(start, e.date) /\ DtLess(e.date, NextMonth(start)))
        IN /\ \A s \in DOMAIN student_tbl :
                student_tbl[s].group = last.value.group
                => Cardinality({i \in 1..Len(r) : r[i].id = s}) = 1
           /\ \A i \in 1..Len(r) : student_tbl[r[i].id].group = last.value.group
           /\ \A i \in 1..Len(r) :
                empty(i) => /\ r[i].monthly_total = Some(0)
                            /\ \A j \in 1..Len(r) : sum(j) > 0 => j < i
                            /\ \A j \in 1..Len(r) : sum(j) < 0 => i < j

----------------------------------------------------------------------------
(* The badges: awards, deletions, reward runs and badge evaluations *)

\* the score a mentor submits while the badges are evaluated
BadgeScores == {10}

InitBadgeTable ==
    badge_tbl = [b \in {"b1", "b2", "b3"} |->
                   CASE b = "b1" -> [name |-> 2, criteria_type |-> "total_points",
                                     criteria_value |-> 10, is_active |-> TRUE]
                     [] b = "b2" -> [name |-> 1, criteria_type |-> "top_rank",
                                     criteria_value |-> 1, is_active |-> TRUE]
                     [] b = "b3" -> [name |-> 3, criteria_type |-> "total_points",
                                     criteria_value |-> 0, is_active |-> FALSE]]

InitBadges ==
    /\ InitDirectory
    /\ InitWorkers
    /\ InitBadgeTable
    /\ category_tbl = [c \in {"homework"} |-> [name |-> 1, max_score |-> 15]]
    /\ points = EmptyBag
    /\ student_badges = EmptyBag
    /\ now = <<2024, 12, 1, 0>>
    /\ last = NoResponse

NextBadges ==
    \/ \E m \in Mentors, g \in DOMAIN group_tbl, s \in DOMAIN student_tbl,
          c \in DOMAIN category_tbl, v \in BadgeScores : student_list(m, g, s, c, v)
    \/ \E m \in Mentors, e \in DOMAIN points : delete_point(m, e)
    \/ \E s \in DOMAIN student_tbl : CheckBadges(s)
    \/ monthly_rewards(NULL)

SpecBadges == InitBadges /\ [][NextBadges]_vars

\* the criterion of badge b read off the ledger for student s: met whatever
\* order the store returns students of equal total in
CriterionMet(s, b) ==
    LET value == badge_tbl[b].criteria_value
    IN CASE badge_tbl[b].criteria_type = "total_points" -> LedgerSum(s) >= value
         [] badge_tbl[b].criteria_type = "top_rank" ->
              Cardinality({x \in DOMAIN student_tbl :
                             /\ x # s
                             /\ student_tbl[x].group = student_tbl[s].group
                             /\ LedgerSum(x) >= LedgerSum(s)}) + 1 <= value
         [] OTHER -> FALSE

InSeq(x, seq) == \E i \in 1..Len(seq) : seq[i] = x

\* C9: a call of check_and_assign_badges returns every active badge the student
\* qualifies for and does not hold, and never a badge the student holds; so of
\* two consecutive calls with no ledger change in between the second returns
\* nothing the first returned.
C9_BadgeOnce ==
    [][\A s \in DOMAIN student_tbl :
         CheckBadges(s) =>
           LET newly_earned == last'.value.newly_earned
               Held(b) == BagIn([student |-> s, badge |-> b], student_badges)
           IN /\ last'.result = "ok"
              /\ \A b \in DOMAIN badge_tbl : Held(b) => ~InSeq(b, newly_earned)
              /\ \A b \in DOMAIN badge_tbl :
                   (badge_tbl[b].is_active /\ ~Held(b) /\ CriterionMet(s, b))
                   => /\ InSeq(b, newly_earned)
                      /\ BagIn([student |-> s, badge |-> b], student_badges')
              /\ (last.op = "check_and_assign_badges" /\ last.value.student = s)
                   => \A b \in DOMAIN badge_tbl :
                        ~(InSeq(b, last.value.newly_earned) /\ InSeq(b, newly_earned))
      ]_vars

\* C9 witness: a call has returned nothing for a student who holds badge b1 and
\* still meets its criterion
C9_Witness ==
    /\ last.op = "check_and_assign_badges"
    /\ last.value.newly_earned = <<>>
    /\ BagIn([student |-> last.value.student, badge |-> "b1"], student_badges)
    /\ CriterionMet(last.value.student, "b1")

----------------------------------------------------------------------------
(* Two workers evaluate badges at the same time *)

Workers == {"w1", "w2"}

InitConc ==
    /\ InitDirectory
    /\ badge_tbl = [b \in {"b1"} |-> [name |-> 1, criteria_type |-> "total_points",
                                      criteria_value |-> 10, is_active |-> TRUE]]
    /\ pc = [w \in Workers |-> "idle"]
    /\ loc = [w \in Workers |-> <<>>]
    /\ category_tbl = [c \in {"homework"} |-> [name |-> 1, max_score |-> 15]]
    /\ points = EmptyBag
    /\ student_badges = EmptyBag
    /\ now = <<2024, 12, 1, 0>>
    /\ last = NoResponse

NextConc ==
    \/ \E m \in Mentors, g \in DOMAIN group_tbl, s \in DOMAIN student_tbl,
          c \in DOMAIN category_tbl, v \in BadgeScores : student_list(m, g, s, c, v)
    \/ \E w \in Workers, s \in DOMAIN student_tbl : BadgeCall(w, s)
    \/ \E w \in Workers : BadgeExists(w)
    \/ \E w \in Workers : BadgeQualifies(w)
    \/ \E w \in Workers : BadgeCreate(w)

SpecConc == InitConc /\ [][NextConc]_vars

\* C10: there is at most one StudentBadge row per (student, badge), and no
\* invocation of check_and_assign_badges ends in an error, also when two
\* invocations for one student interleave between the "already has this badge"
\* check and the creation of the row.
C10_OneRowNoError ==
    /\ \A r \in DOMAIN student_badges : student_badges[r] <= 1
    /\ ~(last.op = "check_and_assign_badges" /\ last.result # "ok")

----------------------------------------------------------------------------
(* Earned badges: the ledger shrinks and the badge is switched off *)

\* the score a mentor edits a point event to
EditScores == {-10}

InitEarned ==
    /\ InitDirectory
    /\ InitWorkers
    /\ badge_tbl = [b \in {"b1"} |-> [name |-> 1, criteria_type |-> "total_points",
                                      criteria_value |-> 10, is_active |-> TRUE]]
    /\ category_tbl = [c \in {"homework"} |-> [name |-> 1, max_score |-> 15]]
    /\ points = EmptyBag
    /\ student_badges = EmptyBag
    /\ now = <<2024, 12, 1, 0>>
    /\ last = NoResponse

NextEarned ==
    \/ \E m \in Mentors, g \in DOMAIN group_tbl, s \in DOMAIN student_tbl,
          c \in DOMAIN category_tbl, v \in BadgeScores : student_list(m, g, s, c, v)
    \/ \E m \in Mentors, e \in DOMAIN points,
          c \in DOMAIN category_tbl, v \in EditScores : point_edit(m, e, c, v)
    \/ \E m \in Mentors, e \in DOMAIN points : delete_point(m, e)
    \/ \E b \in DOMAIN badge_tbl, active \in BOOLEAN : BadgeAdmin(b, active)
    \/ \E s \in DOMAIN student_tbl : CheckBadges(s)
    \/ monthly_rewards(NULL)

SpecEarned == InitEarned /\ [][NextEarned]_vars

----------------------------------------------------------------------------
(* The badge criteria: one badge of every count type, and an inactive one *)

\* the scores a mentor submits while the criteria are evaluated
CriteriaScores == {-5, 10}

\* the students who are given points, and the student who is evaluated
CriteriaStudents == {"s1", "s2"}
Evaluated == {"s1"}

InitCriteria ==
    /\ InitDirectory
    /\ InitWorkers
    /\ badge_tbl = [b \in {"b1", "b2", "b3", "b4", "b5"} |->
                      CASE b = "b1" -> [name |-> 1, criteria_type |-> "total_points",
                                        criteria_value |-> 10, is_active |-> TRUE]
                        [] b = "b2" -> [name |-> 2, criteria_type |-> "homework_completion",
                                        criteria_value |-> 1, is_active |-> TRUE]
                        [] b = "b3" -> [name |-> 3, criteria_type |-> "participation_count",
                                        criteria_value |-> 2, is_active |-> TRUE]
                        [] b = "b4" -> [name |-> 4, criteria_type |-> "attendance_count",
                                        criteria_value |-> 1, is_active |-> TRUE]
                        [] b = "b5" -> [name |-> 5, criteria_type |-> "total_points",
                                        criteria_value |-> 0, is_active |-> FALSE]]
    /\ category_tbl = [c \in {"homework", "participation", "attendance"} |->
                         [name |-> IF c = "homework" THEN 2
                                   ELSE IF c = "participation" THEN 3 ELSE 1,
                          max_score |-> 10]]
    /\ points = EmptyBag
    /\ student_badges = EmptyBag
    /\ now = <<2024, 12, 1, 0>>
    /\ last = NoResponse

NextCriteria ==
    \/ \E m \in Mentors, g \in DOMAIN group_tbl, s \in CriteriaStudents,
          c \in DOMAIN category_tbl, v \in CriteriaScores : student_list(m, g, s, c, v)
    \/ \E s \in Evaluated : CheckBadges(s)

SpecCriteria == InitCriteria /\ [][NextCriteria]_vars

\* the number of stored events of student s with score > 0 in category slug
AwardCount(s, slug) ==
    CountRows([e \in {x \in DOMAIN points : x.score > 0 /\ x.category = slug /\ x.student = s}
                 |-> points[e]])

\* the slug of the category a count criterion reads
SlugOf(type) ==
    CASE type = "homework_completion" -> "homework"
      [] type = "participation_count" -> "participation"
      [] type = "attendance_count" -> "attendance"

----------------------------------------------------------------------------
(* The count badges without their categories *)

InitMissing ==
    /\ InitDirectory
    /\ InitWorkers
    /\ badge_tbl = [b \in {"b1", "b2", "b3", "b4"} |->
                      CASE b = "b1" -> [name |-> 1, criteria_type |-> "homework_completion",
                                        criteria_value |-> 0, is_active |-> TRUE]
                        [] b = "b2" -> [name |-> 2, criteria_type |-> "participation_count",
                                        criteria_value |-> 0, is_active |-> TRUE]
                        [] b = "b3" -> [name |-> 3, criteria_type |-> "attendance_count",
                                        criteria_value |-> 1, is_active |-> TRUE]
                        [] b = "b4" -> [name |-> 4, criteria_type |-> "total_points",
                                        criteria_value |-> 10, is_active |-> TRUE]]
    /\ category_tbl = [c \in {"discipline"} |-> [name |-> 1, max_score |-> 10]]
    /\ points = EmptyBag
    /\ student_badges = EmptyBag
    /\ now = <<2024, 12, 1, 0>>
    /\ last = NoResponse

NextMissing ==
    \/ \E m \in Mentors, g \in DOMAIN group_tbl, s \in DOMAIN student_tbl,
          c \in DOMAIN category_tbl, v \in CriteriaScores : student_list(m, g, s, c, v)
    \/ \E s \in DOMAIN student_tbl : CheckBadges(s)

SpecMissing == InitMissing /\ [][NextMissing]_vars

\* C13: when the category of a count badge (slug homework, participation,
\* attendance) does not exist, check_and_assign_badges does not award the badge,
\* whatever its criteria_value (0 included), and ends without an error.
C13_MissingCategoryFailsClosed ==
    [][\A s \in DOMAIN student_tbl :
         CheckBadges(s) =>
           /\ last'.result = "ok"
           /\ \A b \in DOMAIN badge_tbl :
                (/\ badge_tbl[b].criteria_type \in {"homework_completion",
                                                    "participation_count", "attendance_count"}
                 /\ SlugOf(badge_tbl[b].criteria_type) \notin DOMAIN category_tbl)
                => /\ ~InSeq(b, last'.value.newly_earned)
                   /\ ~BagIn([student |-> s, badge |-> b], student_badges')
      ]_vars

\* C13 witness: an evaluation has ended and awarded the total_points badge alone,
\* with the categories of the three count badges missing
C13_Witness ==
    /\ last.op = "check_and_assign_badges"
    /\ last.result = "ok"
    /\ last.value.newly_earned = <<"b4">>
    /\ {"homework", "participation", "attendance"} \cap DOMAIN category_tbl = {}
    /\ badge_tbl["b1"].criteria_value = 0

----------------------------------------------------------------------------
(* The top_rank badge: every student is evaluated on a ledger that stays as it is *)

\* the scores of the events of the ledger
TopRankScores == {5, 10}

\* the rows a ledger of the top_rank evaluations may hold
TopRankRows ==
    {Row(s, "homework", v, <<2024, 12, 1, 0>>) : s \in DOMAIN student_tbl, v \in TopRankScores}

InitTopRank ==
    /\ InitDirectory
    /\ InitWorkers
    /\ badge_tbl = [b \in {"b1"} |-> [name |-> 1, criteria_type |-> "top_rank",
                                      criteria_value |-> 1, is_active |-> TRUE]]
    /\ category_tbl = [c \in {"homework"} |-> [name |-> 1, max_score |-> 10]]
    /\ \E f \in [TopRankRows -> 0..MaxPoints] :
         /\ CountRows(f) <= MaxPoints
         /\ points = [e \in {x \in TopRankRows : f[x] > 0} |-> f[e]]
    /\ student_badges = EmptyBag
    /\ now = <<2024, 12, 1, 0>>
    /\ last = NoResponse

NextTopRank == \E s \in DOMAIN student_tbl : CheckBadges(s)

SpecTopRank == InitTopRank /\ [][NextTopRank]_vars

\* C14: on a ledger that stays as it is, a top_rank badge of criteria_value 1 is
\* held by no student but the first of the group by all-time total, ties by
\* full name ascending; so never by two students of one group.
C14_TopRankByName ==
    \A s \in DOMAIN student_tbl, b \in DOMAIN badge_tbl :
        (/\ badge_tbl[b].criteria_type = "top_rank"
         /\ badge_tbl[b].criteria_value = 1
         /\ BagIn([student |-> s, badge |-> b], student_badges))
        => \A x \in DOMAIN student_tbl :
             (x # s /\ student_tbl[x].group = student_tbl[s].group)
             => \/ LedgerSum(x) < LedgerSum(s)
                \/ /\ LedgerSum(x) = LedgerSum(s)
                   /\ student_tbl[s].full_name < student_tbl[x].full_name

----------------------------------------------------------------------------
(* The trend: events over four days around the new year, and the trend read *)

\* the instants of the clock: 30 and 31 December 2024, 1 and 2 January 2025
TrendInstants == {<<2024, 12, 30, 0>>, <<2024, 12, 31, 0>>, <<2025, 1, 1, 0>>, <<2025, 1, 2, 0>>}

\* the scores of the events, and the window sizes asked for
TrendScores == {-5, 10}
TrendDays == {1}

\* the student whose trend is read
TrendStudents == {"s1"}

\* Student.get_trend(days) is called on student s
CallGetTrend(s, days) ==
    /\ last' = Response("get_trend", "ok",
                        [student |-> s, days |-> days, now |-> now,
                         trend |-> get_trend(points, s, days)])
    /\ UNCHANGED <<directory, category_tbl, points, student_badges, now, workers>>

InitTrend ==
    /\ InitDirectory
    /\ InitWorkers
    /\ badge_tbl = [b \in {} |-> <<>>]
    /\ category_tbl = [c \in {"homework"} |-> [name |-> 1, max_score |-> 10]]
    /\ points = EmptyBag
    /\ student_badges = EmptyBag
    /\ now = <<2024, 12, 30, 0>>
    /\ last = NoResponse

NextTrend ==
    \/ \E m \in Mentors, g \in DOMAIN group_tbl, s \in TrendStudents,
          c \in DOMAIN category_tbl, v \in TrendScores : student_list(m, g, s, c, v)
    \/ \E s \in TrendStudents, c \in DOMAIN category_tbl, v \in TrendScores,
          d \in TrendInstants : StudentPointAdmin(s, c, v, d)
    \/ Tick(TrendInstants)
    \/ \E s \in TrendStudents, days \in TrendDays : CallGetTrend(s, days)

SpecTrend == InitTrend /\ [][NextTrend]_vars

\* C15: get_trend returns change = current - previous; with previous = 0,
\* change_percent is 100 when current > 0 and 0 otherwise, and no division by
\* zero happens; direction is 'up' iff current > previous, 'down' iff current <
\* previous, 'neutral' iff they are equal.
C15_TrendArithmetic ==
    last.op = "get_trend" =>
        LET trend == last.value.trend
        IN /\ last.result = "ok"
           /\ trend.change = trend.current - trend.previous
           /\ trend.change_percent[2] # 0
           /\ (trend.previous = 0 /\ trend.current > 0) => trend.change_percent = Rat(100, 1)
           /\ (trend.previous = 0 /\ trend.current <= 0) => trend.change_percent = Rat(0, 1)
           /\ trend.direction = "up" <=> trend.current > trend.previous
           /\ trend.direction = "down" <=> trend.current < trend.previous
           /\ trend.direction = "neutral" <=> trend.current = trend.previous

\* C15 witness: previous = 0 and current = 10 has given 100 and 'up'
C15_Witness ==
    /\ last.op = "get_trend"
    /\ last.value.trend.previous = 0
    /\ last.value.trend.current = 10
    /\ last.value.trend.change_percent = Rat(100, 1)
    /\ last.value.trend.direction = "up"

\* C16: in get_trend(days) 'current' is the sum of the student's events stamped
\* in [now - days, now) and 'previous' the sum of those stamped in
\* [now - 2*days, now - days); an event stamped at or after now is in neither.
C16_TrendWindows ==
    last.op = "get_trend" =>
        LET t == last.value.now
            current_start == MinusDays(t, last.value.days)
            previous_start == MinusDays(t, 2 * last.value.days)
        IN /\ last.value.trend.current = WindowSum(last.value.student, current_start, t)
           /\ last.value.trend.previous =
                 WindowSum(last.value.student, previous_start, current_start)

----------------------------------------------------------------------------
(* The month window: events in December and on 1 January, months given with
   a day and a time of day *)

\* the instants of the clock: 1 December 2024 at midnight, 15 December past
\* midnight, 1 January 2025 at midnight
MonthInstants == {<<2024, 12, 1, 0>>, <<2024, 12, 15, 1>>, <<2025, 1, 1, 0>>}

\* the score a mentor submits
MonthScores == {5}

\* the month arguments: none, or one of the instants
MonthArgs == {NULL} \cup {Some(t) : t \in MonthInstants}

InitMonth ==
    /\ InitDirectory
    /\ InitWorkers
    /\ badge_tbl = [b \in {} |-> <<>>]
    /\ category_tbl = [c \in {"homework"} |-> [name |-> 1, max_score |-> 15]]
    /\ points = EmptyBag
    /\ student_badges = EmptyBag
    /\ now = <<2024, 12, 1, 0>>
    /\ last = NoResponse

NextMonthWindow ==
    \/ \E m \in Mentors, g \in DOMAIN group_tbl, s \in DOMAIN student_tbl,
          c \in DOMAIN category_tbl, v \in MonthScores : student_list(m, g, s, c, v)
    \/ Tick(MonthInstants)
    \/ \E g \in DOMAIN group_tbl, month \in MonthArgs : CallMonthlyRanking(g, month)
    \/ \E month \in MonthArgs : monthly_rewards(month)

SpecMonth == InitMonth /\ [][NextMonthWindow]_vars

\* the calendar month of a datetime: its first day at 00:00 and the first day of
\* the next month at 00:00
FirstOfMonth(dt) == <<dt[1], dt[2], 1, 0>>
FirstOfNextMonth(dt) == IF dt[2] = 12 THEN <<dt[1] + 1, 1, 1, 0>> ELSE <<dt[1], dt[2] + 1, 1, 0>>

\* C17: whatever the day and the time of day of the month argument (or of now,
\* when there is none), monthly_ranking and assign_monthly_rewards count an
\* event toward the monthly total iff it is stamped in [first day of the month
\* 00:00, first day of the next month 00:00): the totals of the ranking are the
\* sums over that window, and the students rewarded are those with a positive
\* sum over it.
C17_MonthWindow ==
    [][\A month \in MonthArgs :
         LET dt == IF month = NULL THEN now ELSE month[1]
             sum(s) == WindowSum(s, FirstOfMonth(dt), FirstOfNextMonth(dt))
         IN /\ \A g \in DOMAIN group_tbl :
                 CallMonthlyRanking(g, month) =>
                   \A i \in 1..Len(last'.value.ranking) :
                     LET entry == last'.value.ranking[i]
                     IN (IF entry.monthly_total = NULL THEN 0 ELSE entry.monthly_total[1])
                        = sum(entry.id)
            /\ (monthly_rewards(month) /\ last'.result = "ok") =>
                 last'.value.students_rewarded =
                    Cardinality({s \in DOMAIN student_tbl : sum(s) > 0})
      ]_vars

----------------------------------------------------------------------------
(* The reward run on the ledger *)

\* the students of the group of s whose sum over the month of now is above s's
Ahead(s) ==
    {x \in DOMAIN student_tbl :
       /\ student_tbl[x].group = student_tbl[s].group
       /\ WindowSum(x, FirstOfMonth(now), FirstOfNextMonth(now))
            > WindowSum(s, FirstOfMonth(now), FirstOfNextMonth(now))}

\* the students of the group of s whose sum over the month of now equals s's
Level(s) ==
    {x \in DOMAIN student_tbl :
       /\ x # s
       /\ student_tbl[x].group = student_tbl[s].group
       /\ WindowSum(x, FirstOfMonth(now), FirstOfNextMonth(now))
            = WindowSum(s, FirstOfMonth(now), FirstOfNextMonth(now))}

\* C18: one run of assign_monthly_rewards gives, in every group, the student
\* with the highest positive monthly total a new event of +15, the second +10,
\* the third +5, and nothing to a student whose total is <= 0 or who is fourth
\* or lower; students_rewarded is the number of events written, points_awarded
\* the sum of their scores, groups_processed the number of groups.
C18_RewardRun ==
    [][monthly_rewards(NULL) =>
         /\ last'.result = "ok"
         /\ \A s \in DOMAIN student_tbl :
              LET sum == WindowSum(s, FirstOfMonth(now), FirstOfNextMonth(now))
                  place == Cardinality(Ahead(s)) + 1
                  new(r) == CopiesIn(r, points') - CopiesIn(r, points)
              IN /\ (sum > 0 /\ place <= 3 /\ Level(s) = {})
                      => /\ new(Row(s, "homework", rewards[place], now)) = 1
                         /\ \A r \in DOMAIN points' :
                              (r.student = s /\ r # Row(s, "homework", rewards[place], now))
                              => new(r) = 0
                 /\ (sum <= 0 \/ place > 3)
                      => \A r \in DOMAIN points' : r.student = s => new(r) = 0
         /\ last'.value.students_rewarded = CountRows(points') - CountRows(points)
         /\ last'.value.points_awarded = AddScores(points') - AddScores(points)
         /\ last'.value.groups_processed = Cardinality(DOMAIN group_tbl)
      ]_vars

----------------------------------------------------------------------------
(* Reward runs one after another *)

\* the scores a mentor submits before the runs
RerunScores == {10, 20}

InitRerun ==
    /\ InitDirectory
    /\ InitWorkers
    /\ badge_tbl = [b \in {} |-> <<>>]
    /\ category_tbl = [c \in {"homework"} |-> [name |-> 1, max_score |-> 20]]
    /\ points = EmptyBag
    /\ student_badges = EmptyBag
    /\ now = <<2024, 12, 1, 0>>
    /\ last = NoResponse

NextRerun ==
    \/ \E m \in Mentors, g \in DOMAIN group_tbl, s \in DOMAIN student_tbl,
          c \in DOMAIN category_tbl, v \in RerunScores : student_list(m, g, s, c, v)
    \/ \E m \in Mentors, e \in DOMAIN points : delete_point(m, e)
    \/ monthly_rewards_rerun(NULL)

SpecRerun == InitRerun /\ [][NextRerun]_vars

\* the students with a positive sum over the month of now
Eligible ==
    {s \in DOMAIN student_tbl :
       WindowSum(s, FirstOfMonth(now), FirstOfNextMonth(now)) > 0}

\* C19: a run of assign_monthly_rewards that follows a run for the same month
\* rewards the eligible students again: it writes one further reward event for
\* each, so a student rewarded twice holds two reward events of the month.
C19_RerunRewardsAgain ==
    [][(monthly_rewards_rerun(NULL) /\ last.op = "assign_monthly_rewards"
          /\ last.result = "ok")
         => /\ last'.result = "ok"
            /\ last'.value.students_rewarded = Cardinality(Eligible)
            /\ CountRows(points') = CountRows(points) + Cardinality(Eligible)
            /\ \A s \in Eligible :
                 \E i \in 1..Len(rewards) :
                   CopiesIn(Row(s, "homework", rewards[i], now), points')
                     = CopiesIn(Row(s, "homework", rewards[i], now), points) + 1
      ]_vars

\* C19 witness: after two runs a student holds two first-place rewards of the
\* month
C19_Witness ==
    /\ last.op = "assign_monthly_rewards"
    /\ last.result = "ok"
    /\ \E s \in DOMAIN student_tbl : CopiesIn(Row(s, "homework", rewards[1], now), points) = 2

----------------------------------------------------------------------------
(* A reward that cannot be written *)

\* C20: when writing a reward fails in one group, assign_monthly_rewards still
\* processes the groups that follow: every group is processed in every run, and
\* a student who alone leads a group after the failing one, with a reward the
\* category admits, receives it.
C20_FailureDoesNotAbort ==
    [][monthly_rewards(NULL) =>
         /\ last'.value.groups_processed = Cardinality(DOMAIN group_tbl)
         /\ \A s \in Eligible :
              (/\ Ahead(s) = {} /\ Level(s) = {}
               /\ rewards[1] <= category_tbl["homework"].max_score)
              => CopiesIn(Row(s, "homework", rewards[1], now), points')
                   = CopiesIn(Row(s, "homework", rewards[1], now), points) + 1
      ]_vars

----------------------------------------------------------------------------
(* The category of a reward *)

\* C24: every reward event a run of assign_monthly_rewards writes is in the
\* category with slug 'homework' when there is one, and otherwise in the first
\* category by name; a run with an eligible student finds a category and
\* writes the reward.
C24_RewardCategory ==
    [][monthly_rewards(NULL) =>
         /\ \A r \in DOMAIN (points' (-) points) :
              IF "homework" \in DOMAIN category_tbl THEN r.category = "homework"
              ELSE \A c \in DOMAIN category_tbl :
                      category_tbl[r.category].name <= category_tbl[c].name
         /\ Eligible # {} =>
              /\ last'.result = "ok"
              /\ \E r \in DOMAIN (points' (-) points) : r.score = rewards[1]
      ]_vars

----------------------------------------------------------------------------
(* Student.get_score_breakdown against Student.total_score *)

BreakdownScores == {-5, 10}

\* the instants of the clock and of the date ranges: 1 December 2024 and
\* 1 January 2025, at midnight
BreakdownInstants == {<<2024, 12, 1, 0>>, <<2025, 1, 1, 0>>}

\* start_date and end_date: None or one of the instants
BreakdownDates == {NULL} \cup {Some(t) : t \in BreakdownInstants}

\* Student.get_score_breakdown(start_date, end_date) is called on student s
CallGetScoreBreakdown(s, start_date, end_date) ==
    /\ last' = Response("get_score_breakdown", "ok",
                        [student |-> s, start_date |-> start_date, end_date |-> end_date,
                         breakdown |-> get_score_breakdown(points, s, start_date, end_date)])
    /\ UNCHANGED <<directory, category_tbl, points, student_badges, now, workers>>

InitBreakdown ==
    /\ InitDirectory
    /\ InitWorkers
    /\ badge_tbl = [b \in {} |-> <<>>]
    /\ category_tbl = [c \in {"homework", "discipline"} |->
                         IF c = "homework" THEN [name |-> 2, max_score |-> 10]
                         ELSE [name |-> 1, max_score |-> 10]]
    /\ points = EmptyBag
    /\ student_badges = EmptyBag
    /\ now = <<2024, 12, 1, 0>>
    /\ last = NoResponse

NextBreakdown ==
    \/ \E m \in Mentors, g \in DOMAIN group_tbl, s \in {"s1"},
          c \in DOMAIN category_tbl, v \in BreakdownScores : student_list(m, g, s, c, v)
    \/ \E m \in Mentors, e \in DOMAIN points : delete_point(m, e)
    \/ Tick(BreakdownInstants)
    \/ \E s \in {"s1"}, start_date \in BreakdownDates, end_date \in BreakdownDates :
          CallGetScoreBreakdown(s, start_date, end_date)

SpecBreakdown == InitBreakdown /\ [][NextBreakdown]_vars

\* the sum of the totals of the entries of a breakdown
RECURSIVE SumTotals(_)
SumTotals(breakdown) ==
    IF breakdown = <<>> THEN 0 ELSE Head(breakdown).total + SumTotals(Tail(breakdown))

\* C25: the per-category totals returned by get_score_breakdown sum to
\* total_score for the same student and date range, each category name appears
\* at most once, and the entries are in ascending order of category name.
C25_BreakdownSums ==
    last.op = "get_score_breakdown" =>
       LET v == last.value
           b == v.breakdown
       IN /\ SumTotals(b) = total_score(points, v.student, v.start_date, v.end_date)
          /\ \A i, j \in 1..Len(b) : i < j => b[i].category__name < b[j].category__name

\* a breakdown over a bounded date range with two categories, the total of one
\* of them a deduction
C25_Witness ==
    /\ last.op = "get_score_breakdown"
    /\ Len(last.value.breakdown) = 2
    /\ last.value.start_date # NULL
    /\ last.value.end_date # NULL
    /\ \E i \in 1..2 : last.value.breakdown[i].total < 0

----------------------------------------------------------------------------
(* Two reward runs for the running month *)

\* the December total of a student before the runs: none, or one event of 5 or 10
TieScores == {0, 5, 10}

InitTie ==
    /\ InitWorkers
    /\ group_tbl = [g \in {"g1"} |-> [mentor |-> "m1", name |-> 1]]
    /\ student_tbl = [s \in {"s1", "s2", "s3", "s4"} |->
                        [group |-> "g1",
                         full_name |-> CASE s = "s1" -> 1 [] s = "s2" -> 2
                                         [] s = "s3" -> 3 [] s = "s4" -> 4]]
    /\ category_tbl = [c \in {"homework"} |-> [name |-> 1, max_score |-> 15]]
    /\ badge_tbl = [b \in {} |-> <<>>]
    /\ \E f \in [{"s1", "s2", "s3", "s4"} -> TieScores] :
         points = SetToBag({Row(s, "homework", f[s], <<2024, 12, 1, 0>>) :
                              s \in {x \in DOMAIN f : f[x] # 0}})
    /\ student_badges = EmptyBag
    /\ now = <<2024, 12, 15, 0>>
    /\ last = NoResponse

NextTie == monthly_rewards_again(NULL) \/ monthly_rewards_again(Some(now))

SpecTie == InitTie /\ [][NextTie]_vars

\* C26: a run of assign_monthly_rewards for the running month that follows
\* another one, with no other ledger write in between and every reward
\* accepted, writes the reward events of the run before once more: the same
\* students at the same positions, whatever order the first run chose among
\* students with equal monthly totals.
C26_SameOrderOnRerun ==
    [][(/\ last.op = "assign_monthly_rewards"
        /\ last.result = "ok"
        /\ last'.result = "ok"
        /\ monthly_rewards_again(NULL) \/ monthly_rewards_again(Some(now))) =>
          points' (-) points =
             SetToBag({r \in DOMAIN points : r.date = now /\ r.score \in {15, 10, 5}})
      ]_vars

\* after two runs, two students with equal totals before the runs hold two
\* first-place and two second-place rewards, and a student level with the third
\* holds no reward
C26_Witness ==
    /\ last.op = "assign_monthly_rewards"
    /\ last.result = "ok"
    /\ \E s, t \in DOMAIN student_tbl :
         /\ s # t
         /\ total_score(points, s, NULL, Some(now)) = total_score(points, t, NULL, Some(now))
         /\ CopiesIn(Row(s, "homework", 15, now), points) = 2
         /\ CopiesIn(Row(t, "homework", 10, now), points) = 2
    /\ \E s, t \in DOMAIN student_tbl :
         /\ total_score(points, s, NULL, Some(now)) = total_score(points, t, NULL, Some(now))
         /\ CopiesIn(Row(s, "homework", 5, now), points) = 2
         /\ total_score(points, t, NULL, Some(now)) > 0
         /\ \A e \in DOMAIN points : e.student = t => e.date # now

----------------------------------------------------------------------------
(* The time stamp of a reward *)

\* the reward events a step writes for student s
NewRowsOf(s) ==
    LET new == points' (-) points
    IN [r \in {x \in DOMAIN new : x.student = s} |-> new[r]]

\* C27: a run of assign_monthly_rewards for a month other than the one that
\* contains the run time stamps every reward event with the run time: it
\* leaves every student's total of the rewarded month as it was and adds the
\* reward points to the student's total of the month of the run.
C27_RewardStamp ==
    [][\A month \in MonthArgs :
         (/\ last'.op = "assign_monthly_rewards"
          /\ month # NULL
          /\ FirstOfMonth(month[1]) # FirstOfMonth(now)
          /\ monthly_rewards(month)) =>
            \A s \in DOMAIN student_tbl :
              LET rewarded == FirstOfMonth(month[1])
                  running == FirstOfMonth(now)
              IN /\ \A r \in DOMAIN NewRowsOf(s) : r.date = now
                 /\ WindowSum(s, rewarded, FirstOfNextMonth(rewarded))'
                      = WindowSum(s, rewarded, FirstOfNextMonth(rewarded))
                 /\ WindowSum(s, running, FirstOfNextMonth(running))'
                      = WindowSum(s, running, FirstOfNextMonth(running))
                        + AddScores(NewRowsOf(s))
                 /\ (/\ last'.result = "ok"
                     /\ WindowSum(s, rewarded, FirstOfNextMonth(rewarded)) > 0
                     /\ Cardinality({x \in DOMAIN student_tbl \ {s} :
                                       student_tbl[x].group = student_tbl[s].group}) < 3)
                      => AddScores(NewRowsOf(s)) \in {15, 10, 5}
      ]_vars

\* on 1 January 2025 a student with a positive December total and no other
\* event of January holds the first-place reward, stamped 1 January
C27_Witness ==
    /\ now = <<2025, 1, 1, 0>>
    /\ last.op = "assign_monthly_rewards"
    /\ last.result = "ok"
    /\ \E s \in DOMAIN student_tbl :
         /\ WindowSum(s, <<2024, 12, 1, 0>>, <<2025, 1, 1, 0>>) > 0
         /\ PointsOf(points, s, Some(<<2025, 1, 1, 0>>), NULL)
              = SetToBag({Row(s, "homework", 15, now)})

----------------------------------------------------------------------------
(* The mentors' views over groups, students and point events *)

\* the ids the store gives to groups and to students
GroupIds == {"g1", "g2", "g3"}
StudentIds == {"s1", "s2"}

\* the names a form carries; NULL is the field left blank
Names == {NULL, Some(1)}

\* the scores a mentor submits: 11 is more than max_score
PartitionScores == {10, 11}

InitPartition ==
    /\ InitWorkers
    /\ group_tbl = [g \in {"g1", "g2"} |->
                      IF g = "g1" THEN [mentor |-> "m1", name |-> 2]
                      ELSE [mentor |-> "m2", name |-> 2]]
    /\ student_tbl = [s \in {"s1", "s2"} |->
                        IF s = "s1" THEN [group |-> "g1", full_name |-> 2]
                        ELSE [group |-> "g2", full_name |-> 2]]
    /\ category_tbl = [c \in {"homework"} |-> [name |-> 1, max_score |-> 10]]
    /\ badge_tbl = [b \in {} |-> <<>>]
    /\ points = EmptyBag
    /\ student_badges = EmptyBag
    /\ now = <<2024, 12, 1, 0>>
    /\ last = NoResponse

NextPartition ==
    \/ \E m \in Mentors, g \in GroupIds, name \in Names : group_create(m, g, name)
    \/ \E m \in Mentors, g \in GroupIds, name \in Names : group_edit(m, g, name)
    \/ \E m \in Mentors, g \in GroupIds : group_delete(m, g)
    \/ \E m \in Mentors, g \in GroupIds, s \in StudentIds, name \in Names :
          student_create(m, g, s, name)
    \/ \E m \in Mentors, s \in StudentIds, name \in Names : student_edit(m, s, name)
    \/ \E m \in Mentors, s \in StudentIds : student_delete(m, s)
    \/ \E m \in Mentors, g \in GroupIds, s \in StudentIds,
          c \in DOMAIN category_tbl, v \in PartitionScores : student_list(m, g, s, c, v)
    \/ \E m \in Mentors, e \in DOMAIN points,
          c \in DOMAIN category_tbl, v \in PartitionScores : point_edit(m, e, c, v)
    \/ \E m \in Mentors, e \in DOMAIN points : delete_point(m, e)

SpecPartition == InitPartition /\ [][NextPartition]_vars

\* the groups, students and point events of the groups mentor m does not own
OthersGroups(m) ==
    [g \in {h \in DOMAIN group_tbl : group_tbl[h].mentor # m} |-> group_tbl[g]]
OthersStudents(m) ==
    [s \in {x \in DOMAIN student_tbl : MentorOf(x) # m} |-> student_tbl[s]]
OthersPoints(m) ==
    [r \in {x \in DOMAIN points : MentorOf(x.student) # m} |-> points[r]]

\* group g, student s is there and belongs to a mentor other than m
ForeignGroup(m, g) == g \in DOMAIN group_tbl /\ group_tbl[g].mentor # m
ForeignStudent(m, s) == s \in DOMAIN student_tbl /\ MentorOf(s) # m

\* a request of mentor m through one of the views
Request(m) ==
    \/ \E g \in GroupIds, name \in Names : group_create(m, g, name)
    \/ \E g \in GroupIds, name \in Names : group_edit(m, g, name)
    \/ \E g \in GroupIds : group_delete(m, g)
    \/ \E g \in GroupIds, s \in StudentIds, name \in Names : student_create(m, g, s, name)
    \/ \E s \in StudentIds, name \in Names : student_edit(m, s, name)
    \/ \E s \in StudentIds : student_delete(m, s)
    \/ \E g \in GroupIds, s \in StudentIds, c \in DOMAIN category_tbl,
          v \in PartitionScores : student_list(m, g, s, c, v)
    \/ \E e \in DOMAIN points, c \in DOMAIN category_tbl,
          v \in PartitionScores : point_edit(m, e, c, v)
    \/ \E e \in DOMAIN points : delete_point(m, e)

\* a request of mentor m that names a group, a student or a point event of
\* another mentor in its URL (or, in a post to a group that is not there, a
\* student of another mentor)
ForeignUrlRequest(m) ==
    \/ /\ last'.op = "group_edit"
       /\ \E g \in GroupIds, name \in Names : ForeignGroup(m, g) /\ group_edit(m, g, name)
    \/ /\ last'.op = "group_delete"
       /\ \E g \in GroupIds : ForeignGroup(m, g) /\ group_delete(m, g)
    \/ /\ last'.op = "student_create"
       /\ \E g \in GroupIds, s \in StudentIds, name \in Names :
             ForeignGroup(m, g) /\ student_create(m, g, s, name)
    \/ /\ last'.op = "student_edit"
       /\ \E s \in StudentIds, name \in Names :
             ForeignStudent(m, s) /\ student_edit(m, s, name)
    \/ /\ last'.op = "student_delete"
       /\ \E s \in StudentIds : ForeignStudent(m, s) /\ student_delete(m, s)
    \/ /\ last'.op = "student_list"
       /\ \E g \in GroupIds, s \in StudentIds, c \in DOMAIN category_tbl,
             v \in PartitionScores :
             /\ ForeignGroup(m, g) \/ (g \notin DOMAIN group_tbl /\ ForeignStudent(m, s))
             /\ student_list(m, g, s, c, v)
    \/ /\ last'.op = "point_edit"
       /\ \E e \in DOMAIN points, c \in DOMAIN category_tbl, v \in PartitionScores :
             ForeignStudent(m, e.student) /\ point_edit(m, e, c, v)
    \/ /\ last'.op = "delete_point"
       /\ \E e \in DOMAIN points : ForeignStudent(m, e.student) /\ delete_point(m, e)

\* a point event posted to a group of mentor m for a student of another
\* mentor, with a form that is valid (valid = TRUE) or not
ForeignStudentPost(m, valid) ==
    /\ last'.op = "student_list"
    /\ \E g \in GroupIds, s \in StudentIds, c \in DOMAIN category_tbl,
          v \in PartitionScores :
          /\ g \in DOMAIN group_tbl
          /\ group_tbl[g].mentor = m
          /\ ForeignStudent(m, s)
          /\ (full_clean(Some(c), v) = "ok") = valid
          /\ student_list(m, g, s, c, v)

\* the groups, students and point events of the other mentors are as they were
OthersUnchanged(m) ==
    /\ OthersGroups(m)' = OthersGroups(m)
    /\ OthersStudents(m)' = OthersStudents(m)
    /\ OthersPoints(m)' = OthersPoints(m)

StoreUnchanged == UNCHANGED <<group_tbl, student_tbl, points, student_badges>>

\* C21 as stated: a request of a mentor through the views leaves every group,
\* student and point event of the other mentors' groups as it was, and a
\* request naming another mentor's object is answered as not found and leaves
\* the store unchanged.
C21_MentorPartition ==
    [][\A m \in Mentors :
         /\ OthersUnchanged(m) \/ ~Request(m)
         /\ \/ last'.result = "Http404" /\ StoreUnchanged
            \/ ~(\/ ForeignUrlRequest(m)
                 \/ ForeignStudentPost(m, TRUE)
                 \/ ForeignStudentPost(m, FALSE))]_vars

\* C21 amended: a request of a mentor through the views leaves every group,
\* student and point event of the other mentors' groups as it was; a request
\* naming another mentor's object leaves the store unchanged and is answered
\* as not found, except that a point event posted to the mentor's own group
\* for another mentor's student with an invalid form is answered with the
\* form's errors.
C21_MentorPartitionAmended ==
    [][\A m \in Mentors :
         /\ OthersUnchanged(m) \/ ~Request(m)
         /\ \/ last'.result = "Http404" /\ StoreUnchanged
            \/ ~(ForeignUrlRequest(m) \/ ForeignStudentPost(m, TRUE))
         /\ \/ last'.result = "ValidationError" /\ StoreUnchanged
            \/ ~ForeignStudentPost(m, FALSE)]_vars

\* a request for a point event of another mentor has been answered as not
\* found, and the event is in the ledger
C21_Witness ==
    /\ last.op \in {"point_edit", "delete_point"}
    /\ last.result = "Http404"
    /\ \E e \in DOMAIN points : MentorOf(e.student) = "m2"
    /\ \E g \in DOMAIN group_tbl : group_tbl[g].mentor = "m1"

----------------------------------------------------------------------------
(* Reward runs that make students qualify for badges *)

PassScores == {-15, 5, 10}

\* the rows the ledger holds before the run: of the students of g1, dated in
\* November and in December 2024
PassRows ==
    {Row(s, "homework", v, d) : s \in {"s1", "s2"}, v \in PassScores,
                                d \in {<<2024, 11, 1, 0>>, <<2024, 12, 1, 0>>}}

InitPass ==
    /\ InitDirectory
    /\ InitWorkers
    /\ badge_tbl = [b \in {"b1", "b2"} |->
                      IF b = "b1"
                      THEN [name |-> 1, criteria_type |-> "total_points",
                            criteria_value |-> 20, is_active |-> TRUE]
                      ELSE [name |-> 2, criteria_type |-> "top_rank",
                            criteria_value |-> 1, is_active |-> TRUE]]
    /\ category_tbl = [c \in {"homework"} |-> [name |-> 1, max_score |-> 15]]
    /\ \E n \in 0..MaxRows : \E q \in [1..n -> PassRows] :
         points = [e \in {q[i] : i \in 1..n} |-> Cardinality({i \in 1..n : q[i] = e})]
    /\ student_badges = EmptyBag
    /\ now = <<2024, 12, 1, 0>>
    /\ last = NoResponse

NextPass ==
    \/ \E s \in DOMAIN student_tbl : CheckBadges(s)
    \/ monthly_rewards_stocked(NULL)

SpecPass == InitPass /\ [][NextPass]_vars

\* the ledger as it stood when the student of the new reward row r was
\* evaluated: the ledger before the run, the reward r and the rewards of the
\* students placed ahead in the same group (theirs are the larger ones)
LedgerAt(r) ==
    LET new == points' (-) points
    IN points (+) [x \in {y \in DOMAIN new :
                             /\ student_tbl[y.student].group = student_tbl[r.student].group
                             /\ y.score >= r.score} |-> new[x]]

\* C22: in a run of assign_monthly_rewards every active badge a rewarded student
\* did not hold is decided on the ledger as it stands after that student's
\* reward is written and before the next student's reward is written; so a
\* student whose all-time total reaches the threshold of a total_points badge
\* only through the reward holds that badge when the run returns.
C22_BadgesAfterReward ==
    [][(/\ last'.op = "assign_monthly_rewards"
        /\ last'.result = "ok"
        /\ monthly_rewards_stocked(NULL)) =>
          \A r \in DOMAIN (points' (-) points) :
            \A b \in DOMAIN badge_tbl :
              (badge_tbl[b].is_active /\ ~HasBadge(student_badges, r.student, b)) =>
                 /\ HasBadge(student_badges', r.student, b)
                       \in Qualifies(LedgerAt(r), r.student, b)
                 /\ (/\ badge_tbl[b].criteria_type = "total_points"
                     /\ total_score(points, r.student, NULL, NULL)
                           < badge_tbl[b].criteria_value
                     /\ total_score(points', r.student, NULL, NULL)
                           >= badge_tbl[b].criteria_value)
                       => HasBadge(student_badges', r.student, b)]_vars

\* a run has returned; a student who was below the 20 points of b1 without the
\* reward of 15 holds b1
C22_Witness ==
    /\ last.op = "assign_monthly_rewards"
    /\ last.result = "ok"
    /\ \E s \in {"s1", "s2"} :
         /\ HasBadge(student_badges, s, "b1")
         /\ total_score(points, s, NULL, NULL) >= 20
         /\ total_score(points, s, NULL, NULL) - 15 < 20
         /\ \E e \in DOMAIN points : e.student = s /\ e.score = 15 /\ e.date = now

----------------------------------------------------------------------------
(* A reward run whose steps interleave with the admin's changes of max_score *)

RunScores == {5}

\* the max_score values the admin sets while a run is under way
RunMaxScores == {5, 15}

InitRun ==
    /\ InitDirectory
    /\ pc = [w \in {"w1"} |-> "idle"]
    /\ loc = [w \in {"w1"} |-> <<>>]
    /\ category_tbl \in {[c \in {"homework"} |-> [name |-> 1, max_score |-> 15]],
                         [c \in {"discipline"} |-> [name |-> 1, max_score |-> 15]]}
    /\ badge_tbl = [b \in {"b1"} |-> [name |-> 1, criteria_type |-> "total_points",
                                      criteria_value |-> 20, is_active |-> TRUE]]
    /\ points = EmptyBag
    /\ student_badges = EmptyBag
    /\ now = <<2024, 12, 1, 0>>
    /\ last = NoResponse

NextRun ==
    \/ \E m \in Mentors, g \in DOMAIN group_tbl, s \in DOMAIN student_tbl,
          c \in DOMAIN category_tbl, v \in RunScores : student_list(m, g, s, c, v)
    \/ \E c \in DOMAIN category_tbl, n \in RunMaxScores : PointCategoryAdmin(c, n)
    \/ RunCall("w1", NULL)
    \/ RunGroup("w1")
    \/ RunReward("w1")

SpecRun == InitRun /\ [][NextRun]_vars

\* C23: when a run of assign_monthly_rewards fails, the failing step leaves the
\* store as it is, and every reward event and every StudentBadge the run wrote
\* before the failure is in the store afterwards.
C23_NoRollback ==
    [][(/\ pc["w1"] = "reward"
        /\ pc'["w1"] = "idle"
        /\ last'.result # "ok"
        /\ RunReward("w1")) =>
          /\ points' = points
          /\ student_badges' = student_badges
          /\ \A i \in 1..Len(loc["w1"].written) :
               LET r == loc["w1"].written[i]
               IN IF "badge" \in DOMAIN r THEN BagIn(r, student_badges')
                  ELSE BagIn(r, points')]_vars

\* a run has failed after it rewarded a student: the reward event of 15 and the
\* badge it brought are in the store
C23_Witness ==
    /\ last.op = "assign_monthly_rewards"
    /\ last.result = "ValidationError"
    /\ last.value.students_rewarded >= 1
    /\ \E e \in DOMAIN points : e.score = 15
    /\ student_badges # EmptyBag

============================================================================
